---- MODULE Spec2Model ----
(***************************************************************************)
(* System Bridge backend: the per-connection WebSocket session             *)
(* (server/websocket.py), the listener registry it registers with          *)
(* (modules/listeners.py, known here through its contract) and the         *)
(* scheduler's per-category completion callback (modules/__init__.py).     *)
(***************************************************************************)
EXTENDS Naturals, Sequences, FiniteSets, TLC

(* ------------------------------ bounds --------------------------------- *)

\* inbound messages received over all connections in one behaviour
MaxMsgs == 3
\* category refreshes completed by the scheduler in one behaviour
MaxUpdates == 1
\* trigger invocations of the scheduler in one behaviour
MaxRuns == 2
\* refreshes of media by the platform-events thread in one behaviour
MaxMedia == 2

(* ----------------------------- vocabulary ------------------------------ *)

\* one WebSocketHandler per connection; its listener_id (uuid4) is its name
ConnIds == {"A", "B"}

MODULES ==
    << "battery", "cpu", "disk", "display", "gpu", "media",
       "memory", "network", "processes", "sensors", "system" >>

Range(s) == {s[i] : i \in DOMAIN s}

\* the categories the scheduler refreshes in this model; the tables of
\* the others stay empty
UpdateNames == {"cpu", "disk"}

\* the modules lists a request carries
ModuleLists == { <<>>, <<"cpu", "memory">>, <<"disk", "cpu">> }

SECRET_API_KEY == "K"
Keys == {"K", "wrong"}
\* the client numbers its requests: the n-th message it sends has id n
NoId == 0

TYPE_REGISTER_DATA_LISTENER == "register-data-listener"
TYPE_UNREGISTER_DATA_LISTENER == "unregister-data-listener"
TYPE_GET_DATA == "get-data"
TYPE_EXIT_APPLICATION == "exit-application"
UnknownEventName == "no-such-event"

Events ==
    { TYPE_REGISTER_DATA_LISTENER, TYPE_UNREGISTER_DATA_LISTENER,
      TYPE_GET_DATA, TYPE_EXIT_APPLICATION, UnknownEventName }

\* what a request carries besides its envelope, as far as the handlers of
\* the event families read it:
\*   ok      the event's model accepts the payload (no ValueError)
\*   a       the field the family requires (key, text, action, title,
\*           setting, version; "" when absent), for open the fields present,
\*           for get-files / get-file what the file system holds
\*   v       the `value` field (0 when absent)
\*   raises  the operating-system call the handler makes raises
Args(ok, a, v, raises) == [ok |-> ok, a |-> a, v |-> v, raises |-> raises]

NoArgs == Args(TRUE, "", 0, FALSE)

Msg(kind, id, event, key, modules) ==
    [kind |-> kind, id |-> id, event |-> event, api_key |-> key,
     modules |-> modules, args |-> NoArgs]

NoMsg == Msg("none", NoId, "", "", <<>>)

\* what receive_json / Request(**data) can be handed:
\*   bad_json    text that is not JSON            (JSONDecodeError)
\*   non_object  JSON that is not an object       (Request(**data): TypeError)
\*   bad_request an object failing Request        (ValueError)
\*   request     a well-formed envelope
Inbound ==
    { Msg("bad_json", NoId, "", "", <<>>),
      Msg("non_object", NoId, "", "", <<>>),
      Msg("bad_request", NoId, "", "", <<>>) }
    \cup { Msg("request", NoId, e, k, ml) :
             e \in Events, k \in Keys, ml \in ModuleLists }

\* one input per behaviour of the handler: only the events that read
\* `modules` are given one, and a request with a wrong key comes with one
\* payload per event
WellFormedInput(m) ==
    m.kind = "request" =>
        /\ m.event \notin {TYPE_REGISTER_DATA_LISTENER, TYPE_GET_DATA}
              => m.modules = <<>>
        /\ m.api_key # SECRET_API_KEY
           /\ m.event \in {TYPE_REGISTER_DATA_LISTENER, TYPE_GET_DATA}
              => m.modules = <<"cpu", "memory">>

Response(id, type, subtype, message, module, modules, data, event) ==
    [id |-> id, type |-> type, subtype |-> subtype, message |-> message,
     module |-> module, modules |-> modules, data |-> data, event |-> event]

ErrorResponse(id, subtype, message) ==
    Response(id, "error", subtype, message, "", <<>>, 0, "")

(* ------------------------------- state --------------------------------- *)

VARIABLES
    active,     \* WebSocketHandler._active, per connection
    alive,      \* whether the connection's socket still accepts I/O
    pc,         \* where each session's handler() is
    cur,        \* the message the session received last (data / request)
    idx,        \* get-data: position in model.modules
    listeners,  \* the registry: a set of registrations
    store,      \* per category, the snapshot get_data_dict returns (0: None)
    notifies,   \* the calls of notify in progress, each over its snapshot
    nmsgs,      \* messages received so far
    nupdates,   \* refreshes completed so far
    resp,       \* per connection, the _send_response calls made for cur
    effects,    \* per connection, the side-effect calls made for cur
    settings,   \* the settings store: per setting, its value (0: unset)
    disp,       \* per connection, whether cur reached _handle_event
    exits,      \* per connection, calls of callback_exit_application for cur
    exitPath,   \* per connection, how _handler was left
    ops,        \* per connection, the registry operations that succeeded
    runs,       \* the trigger invocations of the scheduler
    table,      \* the sensors table: per row key, the run that wrote it
    readout,    \* what get-data's latest read of the sensors table returned
    last,       \* the sensors refresh that completed last: run and sample
    events,     \* the platform-events thread (UpdateEventsThread)
    sending     \* per connection, the sends in progress: who awaits send_json

\* the connections of the behaviour
Conns == DOMAIN pc

\* the sessions, the registry and the tables as the sessions see them
sessionVars ==
    << active, alive, pc, cur, idx, listeners, store, notifies, nmsgs,
       nupdates, resp, effects, settings, disp, exits, exitPath, ops >>

schedVars == << runs, table, readout, last, events >>

vars == << sessionVars, schedVars, sending >>

(* ------------------------- listener registry --------------------------- *)

Registration(id, callback, modules) ==
    [id |-> id, callback |-> callback, modules |-> modules]

IsRegistered(L, id) == \E r \in L : r.id = id

\* add_listener(id, callback, modules) -> already_registered
add_listener(L, id, callback, modules) ==
    IF IsRegistered(L, id)
    THEN [already |-> TRUE, listeners |-> L]
    ELSE [already |-> FALSE,
          listeners |-> L \cup {Registration(id, callback, modules)}]

\* remove_listener(id) -> existed
remove_listener(L, id) ==
    [existed |-> IsRegistered(L, id),
     listeners |-> {r \in L : r.id # id}]

\* notify(category, data): the point-in-time copy of the registrations
\* whose subscribed set contains the category
Subscribers(L, category) == {r \in L : category \in Range(r.modules)}

(* ------------------------ session: sending ----------------------------- *)

TYPE_ERROR == "error"
TYPE_DATA_UPDATE == "data-update"
TYPE_DATA_GET == "data-get"
TYPE_DATA_LISTENER_REGISTERED == "data-listener-registered"
TYPE_DATA_LISTENER_UNREGISTERED == "data-listener-unregistered"

\* the text of the exception a failed send raises
ExceptionText == "str(error)"

\* a _send_response that does not read _active
_send_response_always(c, response) ==
    [to |-> c, msg |-> response,
     outcome |-> IF alive[c] THEN "sent" ELSE "raised"]

\* _send_response: returns without sending when the session is not active,
\* else awaits websocket.send_json, which raises on a dead socket.  The
\* value is the record of the call: the response and what became of it.
_send_response(c, response) ==
    [to |-> c, msg |-> response,
     outcome |-> IF ~active[c] THEN "silenced"
                 ELSE IF alive[c] THEN "sent" ELSE "raised"]

\* a _data_changed that pushes whatever name it is given
_data_changed_unchecked(c, module, data) ==
    << _send_response(c,
          Response(NoId, TYPE_DATA_UPDATE, "", "Data changed",
                   module, <<>>, data, "")) >>

\* _data_changed(module, data) of connection c's handler: the calls of
\* _send_response it makes
_data_changed(c, module, data) ==
    IF module \notin Range(MODULES)
    THEN <<>>
    ELSE << _send_response(c,
               Response(NoId, TYPE_DATA_UPDATE, "", "Data changed",
                        module, <<>>, data, "")) >>

(* ------------------------ session: dispatch ---------------------------- *)

\* what one call of _handle_event does up to its first await of a send:
\*   sends      the responses it hands to _send_response, in order
\*   listeners  the registry afterwards
\*   exits      calls of callback_exit_application
\*   more       whether the get-data loop over model.modules follows
\*   op         the registry operation that succeeded, if any
Handled(sends, L, nexits, more, op) ==
    [sends |-> sends, listeners |-> L, exits |-> nexits, more |-> more,
     op |-> op]

\* register-data-listener subscribing the connection to every module
RegisterDataListener_all(c, request, L) ==
    IF Len(request.modules) = 0
    THEN Handled(<< ErrorResponse(request.id, "missing_modules",
                                  "No modules provided") >>,
                 L, 0, FALSE, "none")
    ELSE LET r == add_listener(L, c, c, MODULES) IN
         IF r.already
         THEN Handled(<< Response(request.id, TYPE_ERROR,
                           "listener_already_registered",
                           "Listener already registered with this connection",
                           "", request.modules, 0, "") >>,
                      r.listeners, 0, FALSE, "none")
         ELSE Handled(<< Response(request.id, TYPE_DATA_LISTENER_REGISTERED,
                           "", "Data listener registered",
                           "", request.modules, 0, "") >>,
                      r.listeners, 0, FALSE, "register")

\* register-data-listener replacing the registration the connection holds
RegisterDataListener_replace(c, request, L) ==
    IF Len(request.modules) = 0
    THEN Handled(<< ErrorResponse(request.id, "missing_modules",
                                  "No modules provided") >>,
                 L, 0, FALSE, "none")
    ELSE LET r == add_listener(L, c, c, request.modules)
             replaced == {x \in L : x.id # c}
                            \cup {Registration(c, c, request.modules)}
         IN
         IF r.already
         THEN Handled(<< Response(request.id, TYPE_ERROR,
                           "listener_already_registered",
                           "Listener already registered with this connection",
                           "", request.modules, 0, "") >>,
                      replaced, 0, FALSE, "none")
         ELSE Handled(<< Response(request.id, TYPE_DATA_LISTENER_REGISTERED,
                           "", "Data listener registered",
                           "", request.modules, 0, "") >>,
                      r.listeners, 0, FALSE, "register")

RegisterDataListener(c, request, L) ==
    IF Len(request.modules) = 0
    THEN Handled(<< ErrorResponse(request.id, "missing_modules",
                                  "No modules provided") >>,
                 L, 0, FALSE, "none")
    ELSE LET r == add_listener(L, c, c, request.modules) IN
         IF r.already
         THEN Handled(<< Response(request.id, TYPE_ERROR,
                           "listener_already_registered",
                           "Listener already registered with this connection",
                           "", request.modules, 0, "") >>,
                      r.listeners, 0, FALSE, "none")
         ELSE Handled(<< Response(request.id, TYPE_DATA_LISTENER_REGISTERED,
                           "", "Data listener registered",
                           "", request.modules, 0, "") >>,
                      r.listeners, 0, FALSE, "register")

\* unregister-data-listener ignoring what remove_listener returns
UnregisterDataListener_unchecked(c, request, L) ==
    LET r == remove_listener(L, c) IN
    Handled(<< Response(request.id, TYPE_DATA_LISTENER_UNREGISTERED, "",
                        "Data listener unregistered", "", <<>>, 0, "") >>,
            r.listeners, 0, FALSE, "unregister")

\* unregister-data-listener answering without the registration removed
UnregisterDataListener_keeps(c, request, L) ==
    LET r == remove_listener(L, c) IN
    IF ~r.existed
    THEN Handled(<< ErrorResponse(request.id, "listener_not_registered",
                       "Listener not registered with this connection") >>,
                 L, 0, FALSE, "none")
    ELSE Handled(<< Response(request.id, TYPE_DATA_LISTENER_UNREGISTERED, "",
                       "Data listener unregistered", "", <<>>, 0, "") >>,
                 L, 0, FALSE, "unregister")

UnregisterDataListener(c, request, L) ==
    LET r == remove_listener(L, c) IN
    IF ~r.existed
    THEN Handled(<< ErrorResponse(request.id, "listener_not_registered",
                       "Listener not registered with this connection") >>,
                 r.listeners, 0, FALSE, "none")
    ELSE Handled(<< Response(request.id, TYPE_DATA_LISTENER_UNREGISTERED, "",
                       "Data listener unregistered", "", <<>>, 0, "") >>,
                 r.listeners, 0, FALSE, "unregister")

\* get-data up to the ack; the loop over model.modules is GetDataStep
GetData(c, request, L) ==
    IF Len(request.modules) = 0
    THEN Handled(<< ErrorResponse(request.id, "missing_modules",
                                  "No modules provided") >>,
                 L, 0, FALSE, "none")
    ELSE Handled(<< Response(request.id, TYPE_DATA_GET, "", "Getting data",
                             "", request.modules, 0, "") >>,
                 L, 0, TRUE, "none")

\* the loop body of get-data pushing whatever the Store returned
GetDataModule_unfiltered(request, i, S) ==
    LET module == request.modules[i]
        data == S[module]
    IN << Response(request.id, TYPE_DATA_UPDATE, "", "Data received",
                   module, <<>>, data, "") >>

\* one turn of get-data's loop: the push for model.modules[i], if the
\* Store has data for it
GetDataModule(request, i, S) ==
    LET module == request.modules[i]
        data == S[module]
    IN IF data # 0
       THEN << Response(request.id, TYPE_DATA_UPDATE, "", "Data received",
                        module, <<>>, data, "") >>
       ELSE <<>>

(* --------------------- session: the event families --------------------- *)

TYPE_APPLICATION_UPDATE == "application-update"
TYPE_KEYBOARD_KEYPRESS == "keyboard-keypress"
TYPE_KEYBOARD_TEXT == "keyboard-text"
TYPE_MEDIA_CONTROL == "media-control"
TYPE_NOTIFICATION == "notification"
TYPE_OPEN == "open"
TYPE_GET_DIRECTORIES == "get-directories"
TYPE_GET_FILES == "get-files"
TYPE_GET_FILE == "get-file"
TYPE_GET_SETTINGS == "get-settings"
TYPE_GET_SETTING == "get-setting"
TYPE_GET_REMOTE_BRIDGES == "get-remote-bridges"
TYPE_UPDATE_REMOTE_BRIDGE == "update-remote-bridge"
TYPE_UPDATE_SETTING == "update-setting"

\* the power events: per event, the type of the in-progress Response, its
\* message and the operating-system call that follows the send
PowerEvents ==
    ("power-sleep" :> [type |-> "power-sleeping", message |-> "Sleeping",
                       call |-> "sleep"])
    @@ ("power-hibernate" :> [type |-> "power-hibernating",
                              message |-> "Hiibernating",
                              call |-> "hibernate"])
    @@ ("power-restart" :> [type |-> "power-restarting",
                            message |-> "Restarting", call |-> "restart"])
    @@ ("power-shutdown" :> [type |-> "power-shuttingdown",
                             message |-> "Shutting down",
                             call |-> "shutdown"])
    @@ ("power-lock" :> [type |-> "power-locking", message |-> "Locking",
                         call |-> "lock"])
    @@ ("power-logout" :> [type |-> "power-loggingout",
                           message |-> "Logging out", call |-> "logout"])

\* the members of MediaAction with the media call each one makes
MediaAction ==
    ("play" :> "control_play") @@ ("pause" :> "control_pause")
    @@ ("stop" :> "control_stop") @@ ("previous" :> "control_previous")
    @@ ("next" :> "control_next") @@ ("seek" :> "control_seek")
    @@ ("rewind" :> "control_rewind")
    @@ ("fastforward" :> "control_fastforward")
    @@ ("shuffle" :> "control_shuffle") @@ ("repeat" :> "control_repeat")
    @@ ("mute" :> "control_mute") @@ ("volumedown" :> "control_volume_down")
    @@ ("volumeup" :> "control_volume_up")

\* the actions whose call takes model.value
ValueActions == {"seek", "shuffle", "repeat"}

SETTING_AUTOSTART == "autostart"
SettingNames == {SETTING_AUTOSTART, "log_level"}
\* the values a setting is given; 1 stands for True
SettingValues == {1, 2}

\* Settings.get(key): the value stored under the key
settings_get(S, key) == S[key]

\* Settings.set(key, value)
settings_set(S, key, value) == [S EXCEPT ![key] = value]

\* a Response without subtype, module, modules, data or event
Reply(id, type, message) ==
    Response(id, type, "", message, "", <<>>, 0, "")

\* what a call of _handle_event does besides handing responses to
\* _send_response:
\*   before  the side-effect calls it makes before its first send, in order
\*   after   those it makes once the send has returned
\*   raises  "before" / "after": the last call of that list raises; "" none
\*   setting, value   the write settings.set makes ("" for none)
SideEffects(h, before, after, raises, setting, value) ==
    h @@ [before |-> before, after |-> after, raises |-> raises,
          setting |-> setting, value |-> value]

\* a handler that answers and does nothing else
Answer(response, L) ==
    SideEffects(Handled(<< response >>, L, 0, FALSE, "none"),
                <<>>, <<>>, "", "", 0)

\* a handler that makes the calls of `before`, then answers
ActThenAnswer(request, before, response, L) ==
    SideEffects(Handled(<< response >>, L, 0, FALSE, "none"),
                before, <<>>,
                IF request.args.raises THEN "before" ELSE "", "", 0)

\* the except ValueError clause about an event's model
BadRequest(request, L) ==
    Answer(ErrorResponse(request.id, "bad_request", "Invalid request"), L)

BeforeOf(r) == IF "before" \in DOMAIN r THEN r.before ELSE <<>>
AfterOf(r) == IF "after" \in DOMAIN r THEN r.after ELSE <<>>
RaisesOf(r) == IF "raises" \in DOMAIN r THEN r.raises ELSE ""
SettingOf(r) == IF "setting" \in DOMAIN r THEN r.setting ELSE ""

ApplicationUpdate(request, L) ==
    IF ~request.args.ok
    THEN BadRequest(request, L)
    ELSE ActThenAnswer(request, << "Update.update" >>,
             Reply(request.id, "application-updating",
                   "Updating application"), L)

\* keyboard_keypress raises ValueError on a key it does not know ("bad")
KeyboardKeypress(request, L) ==
    IF ~request.args.ok
    THEN BadRequest(request, L)
    ELSE IF request.args.a = ""
    THEN Answer(ErrorResponse(request.id, "missing_key", "No key provided"),
                L)
    ELSE IF request.args.a = "bad"
    THEN SideEffects(
             Handled(<< ErrorResponse(request.id, "missing_key",
                                      "Invalid key") >>,
                     L, 0, FALSE, "none"),
             << "keyboard_keypress" >>, <<>>, "", "", 0)
    ELSE ActThenAnswer(request, << "keyboard_keypress" >>,
             Reply(request.id, "keyboard-key-pressed", "Key pressed")
                @@ [key |-> request.args.a], L)

KeyboardText(request, L) ==
    IF ~request.args.ok
    THEN BadRequest(request, L)
    ELSE IF request.args.a = ""
    THEN Answer(ErrorResponse(request.id, "missing_text", "No text provided"),
                L)
    ELSE ActThenAnswer(request, << "keyboard_text" >>,
             Reply(request.id, "keyboard-text-sent", "Key pressed")
                @@ [text |-> request.args.a], L)

\* media-control making the call before it looks at model.value
MediaControl_acts_first(request, L) ==
    IF ~request.args.ok
    THEN BadRequest(request, L)
    ELSE IF request.args.a = ""
    THEN Answer(ErrorResponse(request.id, "missing_action",
                              "No action provided"), L)
    ELSE IF request.args.a \notin DOMAIN MediaAction
    THEN Answer(ErrorResponse(request.id, "invalid_action",
                              "Invalid action provided"), L)
    ELSE IF request.args.a \in ValueActions /\ request.args.v = 0
    THEN SideEffects(
             Handled(<< ErrorResponse(request.id, "missing_value",
                                      "No value provided") >>,
                     L, 0, FALSE, "none"),
             << MediaAction[request.args.a] >>, <<>>, "", "", 0)
    ELSE SideEffects(Handled(<<>>, L, 0, FALSE, "none"),
                     << MediaAction[request.args.a] >>, <<>>,
                     IF request.args.raises THEN "before" ELSE "", "", 0)

\* media-control: no branch of a member of MediaAction sends a Response
MediaControl(request, L) ==
    IF ~request.args.ok
    THEN BadRequest(request, L)
    ELSE IF request.args.a = ""
    THEN Answer(ErrorResponse(request.id, "missing_action",
                              "No action provided"), L)
    ELSE IF request.args.a \notin DOMAIN MediaAction
    THEN Answer(ErrorResponse(request.id, "invalid_action",
                              "Invalid action provided"), L)
    ELSE IF request.args.a \in ValueActions /\ request.args.v = 0
    THEN Answer(ErrorResponse(request.id, "missing_value",
                              "No value provided"), L)
    ELSE SideEffects(Handled(<<>>, L, 0, FALSE, "none"),
                     << MediaAction[request.args.a] >>, <<>>,
                     IF request.args.raises THEN "before" ELSE "", "", 0)

Notification(request, L) ==
    IF ~request.args.ok
    THEN BadRequest(request, L)
    ELSE IF request.args.a = ""
    THEN Answer(ErrorResponse(request.id, "missing_title",
                              "No title provided"), L)
    ELSE ActThenAnswer(request, << "callback_open_gui" >>,
             Reply(request.id, "notification-sent", "Notification sent"), L)

\* open: args.a tells which of "path" and "url" the payload has
Open(request, L) ==
    IF request.args.a \in {"path", "both"}
    THEN IF ~request.args.ok
         THEN BadRequest(request, L)
         ELSE ActThenAnswer(request, << "open_path" >>,
                  Reply(request.id, "opened", "Path opened"), L)
    ELSE IF request.args.a = "url"
    THEN IF ~request.args.ok
         THEN BadRequest(request, L)
         ELSE ActThenAnswer(request, << "open_url" >>,
                  Reply(request.id, "opened", "URL opened"), L)
    ELSE Answer(ErrorResponse(request.id, "missing_path_url",
                              "No path or url provided"), L)

GetDirectories(request, L) ==
    ActThenAnswer(request, << "get_directories" >>,
        Reply(request.id, "directories", ""), L)

\* get-files: args.a tells what os.path finds:
\*   no_base  the base directory is unknown or missing
\*   no_path  the path under it does not exist
\*   file     it is a file
\*   dir      it is a directory
GetFiles(request, L) ==
    IF ~request.args.ok
    THEN BadRequest(request, L)
    ELSE IF request.args.a = "no_base"
    THEN Answer(ErrorResponse(request.id, "bad_path",
                              "Cannot find base path"), L)
    ELSE IF request.args.a = "no_path"
    THEN Answer(ErrorResponse(request.id, "bad_path", "Cannot find path"), L)
    ELSE IF request.args.a # "dir"
    THEN Answer(ErrorResponse(request.id, "bad_directory",
                              "Path is not a directory"), L)
    ELSE ActThenAnswer(request, << "get_files" >>,
             Reply(request.id, "files", ""), L)

GetFile(request, L) ==
    IF ~request.args.ok
    THEN BadRequest(request, L)
    ELSE IF request.args.a = "no_base"
    THEN Answer(ErrorResponse(request.id, "bad_path",
                              "Cannot find base path"), L)
    ELSE IF request.args.a = "no_path"
    THEN Answer(ErrorResponse(request.id, "bad_path", "Cannot find path"), L)
    ELSE IF request.args.a # "file"
    THEN Answer(ErrorResponse(request.id, "bad_file", "Path is not a file"),
                L)
    ELSE ActThenAnswer(request, << "get_file" >>,
             Reply(request.id, "file", ""), L)

GetSettings(request, L) ==
    Answer(Reply(request.id, "settings-result", "Got settings"), L)

GetSetting(request, L) ==
    IF ~request.args.ok
    THEN BadRequest(request, L)
    ELSE Answer(Response(request.id, "setting-result", "", "Got setting",
                         "", <<>>, settings_get(settings, request.args.a),
                         "")
                   @@ [setting |-> request.args.a], L)

GetRemoteBridges(request, L) ==
    ActThenAnswer(request, << "get_remote_bridges" >>,
        Reply(request.id, "get-remote-bridges-result", "Got remote bridges"),
        L)

UpdateRemoteBridge(request, L) ==
    IF ~request.args.ok
    THEN BadRequest(request, L)
    ELSE ActThenAnswer(request, << "update_remote_bridge" >>,
             Reply(request.id, "update-remote-bridge-result", "Data updated"),
             L)

\* update-setting answering before the setting is written
UpdateSetting_unwritten(request, L) ==
    IF ~request.args.ok
    THEN BadRequest(request, L)
    ELSE SideEffects(
             Handled(<< Reply(request.id, "setting-updated",
                              "Setting updated")
                           @@ [setting |-> request.args.a,
                               value |-> request.args.v] >>,
                     L, 0, FALSE, "none"),
             <<>>, <<>>, "", "", 0)

\* update-setting: settings.set, the Response, then for the autostart
\* setting autostart_enable() / autostart_disable()
UpdateSetting(request, L) ==
    IF ~request.args.ok
    THEN BadRequest(request, L)
    ELSE SideEffects(
             Handled(<< Reply(request.id, "setting-updated",
                              "Setting updated")
                           @@ [setting |-> request.args.a,
                               value |-> request.args.v] >>,
                     L, 0, FALSE, "none"),
             << "settings.set" >>,
             IF request.args.a # SETTING_AUTOSTART THEN <<>>
             ELSE IF request.args.v = 1 THEN << "autostart_enable" >>
             ELSE << "autostart_disable" >>,
             IF request.args.a = SETTING_AUTOSTART /\ request.args.raises
             THEN "after" ELSE "",
             request.args.a, request.args.v)

\* a power event whose call is made before the Response is sent
Power_acts_first(request, L) ==
    LET p == PowerEvents[request.event] IN
    SideEffects(
        Handled(<< Reply(request.id, p.type, p.message) >>,
                L, 0, FALSE, "none"),
        << p.call >>, <<>>,
        IF request.args.raises THEN "before" ELSE "", "", 0)

\* a power event: the in-progress Response, then the call
Power(request, L) ==
    LET p == PowerEvents[request.event] IN
    SideEffects(
        Handled(<< Reply(request.id, p.type, p.message) >>,
                L, 0, FALSE, "none"),
        <<>>, << p.call >>,
        IF request.args.raises THEN "after" ELSE "", "", 0)

_handle_event(c, request, L) ==
    CASE request.event = TYPE_APPLICATION_UPDATE ->
            ApplicationUpdate(request, L)
      [] request.event = TYPE_EXIT_APPLICATION ->
            Handled(<<>>, L, 1, FALSE, "none")
      [] request.event = TYPE_KEYBOARD_KEYPRESS ->
            KeyboardKeypress(request, L)
      [] request.event = TYPE_KEYBOARD_TEXT ->
            KeyboardText(request, L)
      [] request.event = TYPE_MEDIA_CONTROL ->
            MediaControl(request, L)
      [] request.event = TYPE_NOTIFICATION ->
            Notification(request, L)
      [] request.event = TYPE_OPEN ->
            Open(request, L)
      [] request.event = TYPE_REGISTER_DATA_LISTENER ->
            IF ~request.args.ok
            THEN BadRequest(request, L)
            ELSE RegisterDataListener(c, request, L)
      [] request.event = TYPE_UNREGISTER_DATA_LISTENER ->
            UnregisterDataListener(c, request, L)
      [] request.event = TYPE_GET_DATA ->
            IF ~request.args.ok
            THEN BadRequest(request, L)
            ELSE GetData(c, request, L)
      [] request.event = TYPE_GET_DIRECTORIES ->
            GetDirectories(request, L)
      [] request.event = TYPE_GET_FILES ->
            GetFiles(request, L)
      [] request.event = TYPE_GET_FILE ->
            GetFile(request, L)
      [] request.event = TYPE_GET_SETTINGS ->
            GetSettings(request, L)
      [] request.event = TYPE_GET_SETTING ->
            GetSetting(request, L)
      [] request.event = TYPE_GET_REMOTE_BRIDGES ->
            GetRemoteBridges(request, L)
      [] request.event = TYPE_UPDATE_REMOTE_BRIDGE ->
            UpdateRemoteBridge(request, L)
      [] request.event = TYPE_UPDATE_SETTING ->
            UpdateSetting(request, L)
      [] request.event \in DOMAIN PowerEvents ->
            Power(request, L)
      [] OTHER ->
            Handled(<< Response(request.id, TYPE_ERROR, "unknown_event",
                                "Unknown event", "", <<>>, 0,
                                request.event) >>,
                    L, 0, FALSE, "none")

\* the comparison skipped once the session has had a request accepted
Authenticated_once(c, request) ==
    request.api_key = SECRET_API_KEY \/ ops[c] # <<>>

\* the api-key comparison of _handler
Authenticated(c, request) == request.api_key = SECRET_API_KEY

\* a finally block that empties the registry
Teardown_all(L, c) == {}

\* a finally block that leaves the registry alone
Teardown_skipped(L, c) == L

\* the finally block of handler(): the registry after remove_listener
Teardown(L, c) == remove_listener(L, c).listeners

\* the exceptions a failed I/O call raises: ConnectionError and
\* WebSocketDisconnect are caught by handler(), any other one leaves it
RaiseKinds == {"connection_error", "exception"}

(* ------------------------ scheduler: vocabulary ------------------------ *)

RunIds == 1..MaxRuns

\* a full refresh that also samples the cpu
_classes_with_cpu == << "battery", "disk", "system", "cpu" >>

_classes == << "battery", "disk", "system" >>

_classes_frequent ==
    << "cpu", "display", "gpu", "memory", "network", "processes" >>

\* the categories a trigger refreshes
TriggerSet(trigger) ==
    IF trigger = "update_data"
    THEN Range(_classes)
    ELSE {"sensors"} \cup Range(_classes_frequent)

Triggers == {"update_data", "update_frequent_data"}

Collected == TriggerSet("update_data") \cup TriggerSet("update_frequent_data")

\* the keys of the rows a sampling of the sensors can produce
RowKeys == {"fans", "temperatures"}

\* a trigger invocation (one UpdateThread / UpdateFrequentThread):
\*   status  idle      not started
\*           sensors   update_frequent_data before its gather
\*           gather    awaiting asyncio.gather over the _update tasks
\*           failing   a task has raised, the await has not resumed yet
\*           returned  the trigger returned
\*           raised    the trigger ended with the exception
\*   phase   per category of its set: pending, cleared (sensors: table
\*           cleared, rows to come), refreshed (update_all_data returned),
\*           notified (updated_callback returned), failed (the collector
\*           raised), cancelled
\*   sample  the keys the sensors sampling of this run found, from the
\*           return of update_all_data to the return of its notification
\* When the trigger ends its coroutines are gone: the phases are forgotten.
NoRun ==
    [trigger |-> "none", status |-> "idle",
     phase |-> [n \in Collected |-> "none"], sample |-> {}]

EmptyTable == [k \in RowKeys |-> 0]

\* Database.clear_table(DatabaseModel)
clear_table(T) == EmptyTable

\* the upserts of one sampling by run r, which found the keys of S: a
\* row is written by key, the rows of other keys are left as they are
update_data_rows(T, S, r) == [k \in RowKeys |-> IF k \in S THEN r ELSE T[k]]

\* Database.get_data_dict: the rows of the table
get_data_dict(T) == {[key |-> k, run |-> T[k]] : k \in {x \in RowKeys : T[x] # 0}}

\* what platform.system() can return on a host
Platforms == {"Windows", "Linux", "Darwin"}

\* the category the platform-events thread refreshes
EventsSet == {"media"}

\* the platform-events thread (UpdateEventsThread):
\*   platform   what platform.system() returns, "" before the thread reads it
\*   status     none, constructed (__init__ done), running (run() inside
\*              update_media_info), returned (run() is over)
\*   collector  whether __init__ created the Media collector
\*   phase      idle, refreshed (media table written, notification due)
\*   writes     writes of the media table so far
\*   notified   notifications of "media" so far
NoEvents ==
    [platform |-> "", status |-> "none", collector |-> FALSE,
     phase |-> "idle", writes |-> 0, notified |-> 0]

(* ------------------------------ actions -------------------------------- *)

\* the tables as an earlier run of the scheduler left them: all empty, or
\* disk already sampled once
InitialStores ==
    { [m \in Range(MODULES) |-> 0],
      [m \in Range(MODULES) |-> IF m = "disk" THEN 1 ELSE 0] }

InitOver(Cs) ==
    /\ active = [c \in Cs |-> TRUE]
    /\ alive = [c \in Cs |-> TRUE]
    /\ pc = [c \in Cs |-> "recv"]
    /\ cur = [c \in Cs |-> NoMsg]
    /\ idx = [c \in Cs |-> 0]
    /\ listeners = {}
    /\ store \in InitialStores
    /\ notifies = {}
    /\ nmsgs = 0
    /\ nupdates = 0
    /\ resp = [c \in Cs |-> <<>>]
    /\ effects = [c \in Cs |-> <<>>]
    /\ settings = [n \in SettingNames |-> 0]
    /\ disp = [c \in Cs |-> FALSE]
    /\ exits = [c \in Cs |-> 0]
    /\ exitPath = [c \in Cs |-> "none"]
    /\ ops = [c \in Cs |-> <<>>]
    /\ runs = [r \in RunIds |-> NoRun]
    /\ table = EmptyTable
    /\ readout = [read |-> FALSE, data |-> {}]
    /\ last = [run |-> 0, sample |-> {}]
    /\ events = NoEvents
    /\ sending = [c \in Cs |-> {}]

\* The sessions are coroutines of one event loop: between two awaits (the
\* receive, a send) a session runs alone.  A session is on the loop from
\* the return of its receive to its next await, or to the end of handler().
\*   recv     awaiting websocket.receive_json()
\*   handle   received; decode, validate, authenticate, dispatch to come
\*   getdata  in get-data's loop, awaiting the send of the previous response
\*   done     the turn's last send is over; `while self._active` comes next
\*   leaving  _handler is left (return or exception); finally comes next
\*   closed   handler() has finished
OnLoop(c) == pc[c] \in {"handle", "done", "leaving"}
LoopFree(c) == \A d \in Conns \ {c} : ~OnLoop(d)

\* the end of one step of _handler's loop body for connection c:
\*   log   the _send_response calls made since the message was received
\*   L     the registry the step leaves
\*   next  "getdata" / "done": the loop body goes on or is over;
\*         "leaving": _handler is left by `path`
Settle(c, log, L, next, path, op, nexits, dispatched) ==
    /\ resp' = [resp EXCEPT ![c] = log]
    /\ pc' = [pc EXCEPT ![c] = next]
    /\ listeners' = L
    /\ exitPath' = [exitPath EXCEPT ![c] = IF next = "leaving" THEN path ELSE @]
    /\ ops' = [ops EXCEPT ![c] = IF op # "none" THEN Append(@, op) ELSE @]
    /\ exits' = [exits EXCEPT ![c] = nexits]
    /\ disp' = [disp EXCEPT ![c] = dispatched]
    /\ idx' = [idx EXCEPT ![c] = IF next = "getdata" THEN @ + 1 ELSE 0]

\* an except clause that answers and then leaves _handler
SafetyNet_leaves(c, request, sofar, L, k, op, nexits) ==
    LET e == _send_response(c,
                 ErrorResponse(request.id, "unknown_event", ExceptionText))
    IN Settle(c, Append(sofar, e), L, "leaving", k, op, nexits, TRUE)

\* a send made inside the try block of _handler raised: the except clause
\* sends the unknown_event error; if that send raises too, _handler is left
SafetyNet(c, request, sofar, L, k, op, nexits) ==
    LET e == _send_response(c,
                 ErrorResponse(request.id, "unknown_event", ExceptionText))
    IN Settle(c, Append(sofar, e), L,
              IF e.outcome = "raised" THEN "leaving" ELSE "done",
              k, op, nexits, TRUE)

\* Fatal without its `return`: the error is answered and the loop goes on
Fatal_without_return(c, response, path, k) ==
    LET e == _send_response(c, response) IN
    Settle(c, <<e>>, listeners,
           IF e.outcome = "raised" THEN "leaving" ELSE "done",
           IF e.outcome = "raised" THEN k ELSE path, "none", 0, FALSE)

\* an error answered outside the try block, followed by `return`
Fatal(c, response, path, k) ==
    LET e == _send_response(c, response) IN
    Settle(c, <<e>>, listeners, "leaving",
           IF e.outcome = "raised" THEN k ELSE path, "none", 0, FALSE)

\* a session that takes its next message while get-data still sends
Receive_eager(c, m) ==
    /\ pc[c] \in {"recv", "getdata"}
    /\ alive[c]
    /\ LoopFree(c)
    /\ nmsgs < MaxMsgs
    /\ WellFormedInput(m)
    /\ cur' = [cur EXCEPT ![c] = [m EXCEPT !.id = nmsgs + 1]]
    /\ pc' = [pc EXCEPT ![c] = "handle"]
    /\ nmsgs' = nmsgs + 1
    /\ UNCHANGED << active, alive, idx, listeners, store, nupdates, notifies,
                    resp, effects, settings, disp, exits, exitPath, ops, schedVars, sending >>

\* await websocket.receive_json() returns a message; a decoded object
\* carries its id, whether or not it then passes the envelope validation
Receive(c, m) ==
    /\ pc[c] = "recv"
    /\ alive[c]
    /\ LoopFree(c)
    /\ nmsgs < MaxMsgs
    /\ WellFormedInput(m)
    /\ cur' = [cur EXCEPT ![c] =
                 IF m.kind \in {"request", "bad_request"}
                 THEN [m EXCEPT !.id = nmsgs + 1]
                 ELSE m]
    /\ pc' = [pc EXCEPT ![c] = "handle"]
    /\ nmsgs' = nmsgs + 1
    /\ UNCHANGED << active, alive, idx, listeners, store, nupdates, notifies,
                    resp, effects, settings, disp, exits, exitPath, ops, schedVars, sending >>

\* await websocket.receive_json() raises on the dead socket
ReceiveFails(c, k) ==
    /\ pc[c] = "recv"
    /\ ~alive[c]
    /\ LoopFree(c)
    /\ Settle(c, <<>>, listeners, "leaving", k, "none", 0, FALSE)
    /\ UNCHANGED << active, alive, cur, store, notifies, nmsgs, nupdates,
                    effects, settings, schedVars, sending >>

\* whether the message the session holds passes the envelope check and the
\* api-key comparison, so that _handle_event is called with it
Dispatches(c) == cur[c].kind = "request" /\ Authenticated(c, cur[c])

\* the side-effect calls a call of _handle_event makes, the one that
\* raises included: those after the send are not reached when the send or
\* an earlier call raises
CallsMade(c, r) ==
    IF RaisesOf(r) = "before"
    THEN BeforeOf(r)
    ELSE IF r.sends # <<>> /\ _send_response(c, r.sends[1]).outcome = "raised"
    THEN BeforeOf(r)
    ELSE BeforeOf(r) \o AfterOf(r)

\* one turn of _handler's loop after the receive: decode, validate,
\* authenticate, dispatch up to the first send of _handle_event
HandleTurn(c, k) ==
    /\ pc[c] = "handle"
    /\ LET m == cur[c] IN
       CASE m.kind = "bad_json" ->
               Fatal(c, ErrorResponse(NoId, "bad_json", "Invalid JSON"),
                     "bad_json", k)
         [] m.kind = "bad_request" ->
               Fatal(c, ErrorResponse(NoId, "bad_request", "Invalid request"),
                     "bad_request", k)
         [] m.kind = "non_object" ->
               Settle(c, <<>>, listeners, "leaving", "exception",
                      "none", 0, FALSE)
         [] m.kind = "request" /\ ~Authenticated(c, m) ->
               Fatal(c, ErrorResponse(m.id, "bad_api_key", "Invalid api-key"),
                     "bad_api_key", k)
         [] OTHER ->
               LET r == _handle_event(c, m, listeners) IN
               IF RaisesOf(r) = "before"
               THEN SafetyNet(c, m, <<>>, r.listeners, k, r.op, r.exits)
               ELSE IF r.sends = <<>>
               THEN Settle(c, <<>>, r.listeners, "done", k,
                           r.op, r.exits, TRUE)
               ELSE LET e == _send_response(c, r.sends[1]) IN
                    IF e.outcome = "raised" \/ RaisesOf(r) = "after"
                    THEN SafetyNet(c, m, <<e>>, r.listeners, k, r.op, r.exits)
                    ELSE Settle(c, <<e>>, r.listeners,
                                IF r.more THEN "getdata" ELSE "done",
                                k, r.op, r.exits, TRUE)
    /\ LET r == _handle_event(c, cur[c], listeners) IN
       IF Dispatches(c)
       THEN /\ effects' = [effects EXCEPT ![c] = CallsMade(c, r)]
            /\ settings' = IF SettingOf(r) # ""
                           THEN settings_set(settings, r.setting, r.value)
                           ELSE settings
       ELSE UNCHANGED << effects, settings >>
    /\ UNCHANGED << active, alive, cur, store, notifies, nmsgs, nupdates, schedVars >>

\* the turn with its send awaited in the same step
Handle(c, k) == HandleTurn(c, k) /\ UNCHANGED sending

\* one turn of get-data's `for module in model.modules`
GetDataStep(c, k) ==
    /\ pc[c] = "getdata"
    /\ LoopFree(c)
    /\ LET m == cur[c]
           sends == GetDataModule(m, idx[c], store)
           next == IF idx[c] < Len(m.modules) THEN "getdata" ELSE "done"
       IN IF sends = <<>>
          THEN Settle(c, resp[c], listeners, next, k, "none", exits[c], TRUE)
          ELSE LET e == _send_response(c, sends[1]) IN
               IF e.outcome = "raised"
               THEN SafetyNet(c, m, Append(resp[c], e), listeners, k,
                              "none", exits[c])
               ELSE Settle(c, Append(resp[c], e), listeners, next, k,
                           "none", exits[c], TRUE)
    /\ UNCHANGED << active, alive, cur, store, notifies, nmsgs, nupdates,
                    effects, settings, schedVars, sending >>

\* a loop that does not test _active
Loop_forever(c) ==
    /\ pc[c] = "done"
    /\ pc' = [pc EXCEPT ![c] = "recv"]
    /\ cur' = [cur EXCEPT ![c] = NoMsg]
    /\ resp' = [resp EXCEPT ![c] = <<>>]
    /\ disp' = [disp EXCEPT ![c] = FALSE]
    /\ exits' = [exits EXCEPT ![c] = 0]
    /\ effects' = [effects EXCEPT ![c] = <<>>]
    /\ UNCHANGED << active, alive, idx, listeners, store, notifies, nmsgs, nupdates,
                    settings, ops, exitPath, schedVars, sending >>

\* `while self._active` at the top of _handler's loop
Loop(c) ==
    /\ pc[c] = "done"
    /\ pc' = [pc EXCEPT ![c] = IF active[c] THEN "recv" ELSE "leaving"]
    /\ exitPath' = [exitPath EXCEPT ![c] = IF active[c] THEN @ ELSE "inactive"]
    /\ cur' = [cur EXCEPT ![c] = NoMsg]
    /\ resp' = [resp EXCEPT ![c] = <<>>]
    /\ disp' = [disp EXCEPT ![c] = FALSE]
    /\ exits' = [exits EXCEPT ![c] = 0]
    /\ effects' = [effects EXCEPT ![c] = <<>>]
    /\ UNCHANGED << active, alive, idx, listeners, store, notifies, nmsgs, nupdates,
                    settings, ops, schedVars, sending >>

\* handler(): the except clause and the finally block
handler(c) ==
    /\ pc[c] = "leaving"
    /\ pc' = [pc EXCEPT ![c] = "closed"]
    /\ listeners' = Teardown(listeners, c)
    /\ ops' = [ops EXCEPT ![c] = Append(@, "teardown")]
    /\ cur' = [cur EXCEPT ![c] = NoMsg]
    /\ resp' = [resp EXCEPT ![c] = <<>>]
    /\ disp' = [disp EXCEPT ![c] = FALSE]
    /\ exits' = [exits EXCEPT ![c] = 0]
    /\ effects' = [effects EXCEPT ![c] = <<>>]
    /\ UNCHANGED << active, alive, idx, store, notifies, nmsgs, nupdates, exitPath,
                    settings, schedVars, sending >>

\* set_active(active), called by the owner of the session while the
\* session awaits its receive or a send (the send a step ends with
\* included)
set_active(c, b) ==
    /\ pc[c] \in {"recv", "getdata", "done"}
    /\ active[c] # b
    /\ active' = [active EXCEPT ![c] = b]
    /\ UNCHANGED << alive, pc, cur, idx, listeners, store, notifies, nmsgs, nupdates,
                    resp, effects, settings, disp, exits, exitPath, ops, schedVars, sending >>

\* the peer goes away: the socket is closed abruptly
Disconnect(c) ==
    /\ pc[c] # "closed"
    /\ alive[c]
    /\ alive' = [alive EXCEPT ![c] = FALSE]
    /\ UNCHANGED << active, pc, cur, idx, listeners, store, notifies, nmsgs, nupdates,
                    resp, effects, settings, disp, exits, exitPath, ops, schedVars, sending >>

\* Update._update for one category: update_all_data() clears the table and
\* fills it with the rows of a new sampling, then updated_callback(name)
\* has the registry notify the category with the table's snapshot.  A
\* snapshot is named by the number of the sampling that wrote it.
_update(name) ==
    /\ nupdates < MaxUpdates
    /\ nupdates' = nupdates + 1
    /\ store' = [store EXCEPT ![name] = @ + 1]
    /\ LET snapshot == Subscribers(listeners, name) IN
       notifies' = IF snapshot = {} THEN notifies
                   ELSE notifies \cup {[module |-> name,
                                        data |-> store[name] + 1,
                                        pending |-> snapshot,
                                        delivered |-> {}]}
    /\ UNCHANGED << active, alive, pc, cur, idx, listeners, nmsgs, resp,
                    effects, settings, disp, exits, exitPath, ops, schedVars, sending >>

\* an iteration that a raising callback aborts
DeliverCall_aborting(n, r) ==
    /\ n \in notifies
    /\ r \in n.pending
    /\ LET log == _data_changed(r.callback, n.module, n.data)
           failed == \E i \in DOMAIN log : log[i].outcome = "raised"
       IN notifies' = (notifies \ {n}) \cup
             {[n EXCEPT !.pending = IF failed THEN {} ELSE @ \ {r},
                        !.delivered = @ \cup {[reg |-> r, log |-> log]}]}
    /\ UNCHANGED << active, alive, pc, cur, idx, listeners, store, nmsgs, nupdates,
                    resp, effects, settings, disp, exits, exitPath, ops, schedVars >>

\* notify's iteration over its snapshot: the callback of one registration
\* is invoked; a callback that raises does not stop the iteration.  The
\* call keeps, per registration served, what its callback did.
DeliverCall(n, r) ==
    /\ n \in notifies
    /\ r \in n.pending
    /\ notifies' = (notifies \ {n}) \cup
          {[n EXCEPT !.pending = @ \ {r},
                     !.delivered = @ \cup
                        {[reg |-> r,
                          log |-> _data_changed(r.callback, n.module, n.data)]}]}
    /\ UNCHANGED << active, alive, pc, cur, idx, listeners, store, nmsgs, nupdates,
                    resp, effects, settings, disp, exits, exitPath, ops, schedVars >>

\* the callback with its send awaited in the same step
Deliver(n, r) == DeliverCall(n, r) /\ UNCHANGED sending

\* notify returns once its snapshot is exhausted
NotifyReturn(n) ==
    /\ n \in notifies
    /\ n.pending = {}
    /\ notifies' = notifies \ {n}
    /\ UNCHANGED << active, alive, pc, cur, idx, listeners, store, nmsgs, nupdates,
                    resp, effects, settings, disp, exits, exitPath, ops, schedVars, sending >>

Next ==
    \/ \E c \in Conns, m \in Inbound : Receive(c, m)
    \/ \E c \in Conns, k \in RaiseKinds : ReceiveFails(c, k)
    \/ \E c \in Conns, k \in RaiseKinds : Handle(c, k)
    \/ \E c \in Conns, k \in RaiseKinds : GetDataStep(c, k)
    \/ \E c \in Conns : Loop(c)
    \/ \E c \in Conns : handler(c)
    \/ \E c \in Conns, b \in BOOLEAN : set_active(c, b)
    \/ \E c \in Conns : Disconnect(c)
    \/ \E name \in UpdateNames : _update(name)
    \/ \E n \in notifies : \E r \in n.pending : Deliver(n, r)
    \/ \E n \in notifies : NotifyReturn(n)

Init == InitOver({"A"})

\* one session, every kind of inbound message, the scheduler's refreshes
Spec == Init /\ [][Next]_vars

\* the requests that reach the registry, correctly authenticated
RegistryInbound ==
    { m \in Inbound :
        /\ m.kind = "request"
        /\ m.api_key = SECRET_API_KEY
        /\ m.event \in {TYPE_REGISTER_DATA_LISTENER,
                        TYPE_UNREGISTER_DATA_LISTENER}
        /\ m.modules # <<>> \/ m.event = TYPE_UNREGISTER_DATA_LISTENER }

NextConns ==
    \/ \E c \in Conns, m \in RegistryInbound : Receive(c, m)
    \/ \E c \in Conns : ReceiveFails(c, "connection_error")
    \/ \E c \in Conns : Handle(c, "connection_error")
    \/ \E c \in Conns : Loop(c)
    \/ \E c \in Conns : handler(c)
    \/ \E c \in Conns : pc[c] = "recv" /\ Disconnect(c)
    \/ \E name \in UpdateNames : _update(name)
    \/ \E n \in notifies : \E r \in n.pending : Deliver(n, r)
    \/ \E n \in notifies : NotifyReturn(n)

InitConns == InitOver(ConnIds)

\* two sessions sharing the registry, their register and unregister
\* requests, peers that go away while their session awaits a message, the
\* scheduler's refreshes
SpecConns == InitConns /\ [][NextConns]_vars

\* a correctly authenticated request of one event with its payload
EventMsg(event, modules, args) ==
    [Msg("request", NoId, event, SECRET_API_KEY, modules)
        EXCEPT !.args = args]

\* the payloads of each event family: one the model rejects, one per
\* branch of the handler, and the operating-system call raising
EventInbound ==
    { Msg("bad_json", NoId, "", "", <<>>),
      Msg("bad_request", NoId, "", "", <<>>),
      Msg("request", NoId, TYPE_GET_SETTINGS, "wrong", <<>>) }
    \cup { EventMsg(e, <<>>, NoArgs) :
             e \in {TYPE_EXIT_APPLICATION, UnknownEventName,
                    TYPE_UNREGISTER_DATA_LISTENER, TYPE_GET_DIRECTORIES,
                    TYPE_GET_SETTINGS, TYPE_GET_REMOTE_BRIDGES}
                   \cup DOMAIN PowerEvents }
    \cup { EventMsg(e, ml, NoArgs) :
             e \in {TYPE_REGISTER_DATA_LISTENER, TYPE_GET_DATA},
             ml \in ModuleLists }
    \cup { EventMsg(e, <<>>, Args(FALSE, "", 0, FALSE)) :
             e \in {TYPE_APPLICATION_UPDATE, TYPE_KEYBOARD_KEYPRESS,
                    TYPE_KEYBOARD_TEXT, TYPE_MEDIA_CONTROL, TYPE_NOTIFICATION,
                    TYPE_REGISTER_DATA_LISTENER, TYPE_GET_DATA,
                    TYPE_GET_FILES, TYPE_GET_FILE, TYPE_GET_SETTING,
                    TYPE_UPDATE_REMOTE_BRIDGE, TYPE_UPDATE_SETTING} }
    \cup { EventMsg(TYPE_OPEN, <<>>, Args(ok, a, 0, FALSE)) :
             ok \in BOOLEAN, a \in {"path", "url", "both", "neither"} }
    \cup { EventMsg(e, <<>>, Args(TRUE, "", 0, r)) :
             e \in {TYPE_APPLICATION_UPDATE, TYPE_UPDATE_REMOTE_BRIDGE,
                    "power-sleep", "power-shutdown"},
             r \in BOOLEAN }
    \cup { EventMsg(TYPE_KEYBOARD_KEYPRESS, <<>>, Args(TRUE, a, 0, r)) :
             a \in {"", "a", "bad"}, r \in BOOLEAN }
    \cup { EventMsg(e, <<>>, Args(TRUE, a, 0, r)) :
             e \in {TYPE_KEYBOARD_TEXT, TYPE_NOTIFICATION},
             a \in {"", "text"}, r \in BOOLEAN }
    \cup { EventMsg(TYPE_MEDIA_CONTROL, <<>>, Args(TRUE, a, v, r)) :
             a \in {"", "bogus"} \cup DOMAIN MediaAction,
             v \in {0, 1}, r \in BOOLEAN }
    \cup { EventMsg(e, <<>>, Args(TRUE, a, 0, FALSE)) :
             e \in {TYPE_GET_FILES, TYPE_GET_FILE},
             a \in {"no_base", "no_path", "file", "dir"} }
    \cup { EventMsg(TYPE_GET_SETTING, <<>>, Args(TRUE, a, 0, FALSE)) :
             a \in SettingNames }
    \cup { EventMsg(TYPE_UPDATE_SETTING, <<>>, Args(TRUE, a, v, r)) :
             a \in SettingNames, v \in SettingValues, r \in BOOLEAN }

\* one input per behaviour of the handlers: `value` and a raising call
\* only where the handler reads the one and makes the other
WellFormedEvent(m) ==
    m.kind = "request" =>
        /\ m.args.raises =>
              /\ m.args.a \notin {"", "bad", "bogus"}
                    \/ m.event \in DOMAIN PowerEvents
                              \cup {TYPE_APPLICATION_UPDATE,
                                    TYPE_UPDATE_REMOTE_BRIDGE}
              /\ m.event = TYPE_MEDIA_CONTROL => m.args.a \in {"play", "seek"}
              /\ m.event = TYPE_UPDATE_SETTING
                    => m.args.a = SETTING_AUTOSTART
        /\ m.event = TYPE_MEDIA_CONTROL /\ m.args.v # 0
              => m.args.a \in ValueActions
        /\ m.event = TYPE_MEDIA_CONTROL /\ m.args.raises
              /\ m.args.a \in ValueActions => m.args.v # 0

NextEvents ==
    \/ \E c \in Conns, m \in EventInbound :
          WellFormedEvent(m) /\ Receive(c, m)
    \/ \E c \in Conns, k \in RaiseKinds : ReceiveFails(c, k)
    \/ \E c \in Conns, k \in RaiseKinds : Handle(c, k)
    \/ \E c \in Conns, k \in RaiseKinds : GetDataStep(c, k)
    \/ \E c \in Conns : Loop(c)
    \/ \E c \in Conns : handler(c)
    \/ \E c \in Conns, b \in BOOLEAN : set_active(c, b)
    \/ \E c \in Conns : Disconnect(c)

\* one session, every event family with every branch of its handler
SpecEvents == Init /\ [][NextEvents]_vars

\* a name that is no category of MODULES
OtherName == "not-a-module"

\* registrations for categories and for a name that is none
RouteInbound ==
    { EventMsg(TYPE_REGISTER_DATA_LISTENER, ml, NoArgs) :
        ml \in { <<"cpu", "memory">>, <<"cpu", OtherName>> } }
    \cup { EventMsg(TYPE_UNREGISTER_DATA_LISTENER, <<>>, NoArgs) }

\* Listeners.notify(name, data), whatever the name: the call starts over
\* the snapshot of the registrations subscribed to it
notify(name) ==
    /\ nupdates < MaxUpdates
    /\ nupdates' = nupdates + 1
    /\ LET snapshot == Subscribers(listeners, name) IN
       notifies' = IF snapshot = {} THEN notifies
                   ELSE notifies \cup {[module |-> name,
                                        data |-> nupdates + 1,
                                        pending |-> snapshot,
                                        delivered |-> {}]}
    /\ UNCHANGED << active, alive, pc, cur, idx, listeners, store, nmsgs, resp,
                    effects, settings, disp, exits, exitPath, ops, schedVars, sending >>

NextRoute ==
    \/ \E c \in Conns, m \in RouteInbound : Receive(c, m)
    \/ \E c \in Conns, k \in RaiseKinds : ReceiveFails(c, k)
    \/ \E c \in Conns, k \in RaiseKinds : Handle(c, k)
    \/ \E c \in Conns : Loop(c)
    \/ \E c \in Conns : handler(c)
    \/ \E c \in Conns, b \in BOOLEAN : set_active(c, b)
    \/ \E c \in Conns : Disconnect(c)
    \/ \E name \in {"cpu", "memory", OtherName} : notify(name)
    \/ \E n \in notifies : \E r \in n.pending : Deliver(n, r)
    \/ \E n \in notifies : NotifyReturn(n)

\* one session, its registrations, and the registry routing notifications
\* of categories and of a name that is none
SpecRoute == Init /\ [][NextRoute]_vars

(* ------------------------- sends in progress --------------------------- *)

\* the turn of _handler that session c is about to run awaits
\* websocket.send_json: _send_response is called and the session is active
WillSend(c) ==
    /\ pc[c] = "handle"
    /\ active[c]
    /\ \/ cur[c].kind \in {"bad_json", "bad_request"}
       \/ cur[c].kind = "request" /\ ~Authenticated(c, cur[c])
       \/ /\ Dispatches(c)
          /\ LET r == _handle_event(c, cur[c], listeners) IN
             r.sends # <<>> /\ RaisesOf(r) # "before"

\* _send_response of the dispatch loop reaches `await send_json`
LoopSendStart(c) ==
    /\ WillSend(c)
    /\ "loop" \notin sending[c]
    /\ sending' = [sending EXCEPT ![c] = @ \cup {"loop"}]
    /\ UNCHANGED << sessionVars, schedVars >>

\* the turn of the dispatch loop, its send over
LoopSendEnd(c, k) ==
    /\ WillSend(c) => "loop" \in sending[c]
    /\ HandleTurn(c, k)
    /\ sending' = [sending EXCEPT ![c] = @ \ {"loop"}]

\* the callback notify invokes for registration r, run by the thread of
\* the trigger that refreshed n.module, reaches `await send_json`
CallbackWillSend(n, r) ==
    /\ n \in notifies
    /\ r \in n.pending
    /\ n.module \in Range(MODULES)
    /\ active[r.callback]

CallbackSendStart(n, r) ==
    /\ CallbackWillSend(n, r)
    /\ n.module \notin sending[r.callback]
    /\ sending' = [sending EXCEPT ![r.callback] = @ \cup {n.module}]
    /\ UNCHANGED << sessionVars, schedVars >>

\* the callback returns, its send over
CallbackSendEnd(n, r) ==
    /\ CallbackWillSend(n, r) => n.module \in sending[r.callback]
    /\ DeliverCall(n, r)
    /\ sending' = [sending EXCEPT ![r.callback] = @ \ {n.module}]

\* one session and the scheduler's refreshes, every send a step that
\* starts and a step that ends
NextSends ==
    \/ \E c \in Conns, m \in RegistryInbound : Receive(c, m)
    \/ \E c \in Conns, k \in RaiseKinds : ReceiveFails(c, k)
    \/ \E c \in Conns : LoopSendStart(c)
    \/ \E c \in Conns, k \in RaiseKinds : LoopSendEnd(c, k)
    \/ \E c \in Conns : Loop(c)
    \/ \E c \in Conns : handler(c)
    \/ \E c \in Conns : Disconnect(c)
    \/ \E name \in UpdateNames : _update(name)
    \/ \E n \in notifies : \E r \in n.pending : CallbackSendStart(n, r)
    \/ \E n \in notifies : \E r \in n.pending : CallbackSendEnd(n, r)
    \/ \E n \in notifies : NotifyReturn(n)

SpecSends == Init /\ [][NextSends]_vars

(* -------------------------- scheduler: actions ------------------------- *)

InFlight(r) == runs[r].status \in {"sensors", "gather", "failing"}

SetPhase(r, name, p) == [runs EXCEPT ![r].phase[name] = p]

\* a frequent trigger that gathers the sensors with the six others
request_update_gathered(r, trigger) ==
    /\ runs[r].status = "idle"
    /\ \A q \in RunIds : q < r => runs[q].status # "idle"
    /\ runs' = [runs EXCEPT
          ![r] = [trigger |-> trigger,
                  status |-> "gather",
                  phase |-> [n \in Collected |->
                               IF n \in TriggerSet(trigger)
                               THEN "pending" ELSE "none"],
                  sample |-> {}]]
    /\ UNCHANGED << table, readout, last, events, sessionVars, sending >>

\* a request that waits until nothing else is in flight
request_update_serialized(r, trigger) ==
    /\ runs[r].status = "idle"
    /\ \A q \in RunIds : q < r => runs[q].status # "idle"
    /\ \A q \in RunIds : ~InFlight(q)
    /\ events.status # "running"
    /\ runs' = [runs EXCEPT
          ![r] = [trigger |-> trigger,
                  status |-> IF trigger = "update_data" THEN "gather"
                             ELSE "sensors",
                  phase |-> [n \in Collected |->
                               IF trigger = "update_data"
                               THEN IF n \in Range(_classes)
                                    THEN "pending" ELSE "none"
                               ELSE IF n = "sensors"
                                    THEN "pending" ELSE "none"],
                  sample |-> {}]]
    /\ UNCHANGED << table, readout, last, events, sessionVars, sending >>

\* Data.request_update_data / request_update_frequent_data: a new thread
\* runs the trigger; nothing tells whether an earlier one is still running
request_update(r, trigger) ==
    /\ runs[r].status = "idle"
    /\ \A q \in RunIds : q < r => runs[q].status # "idle"
    /\ runs' = [runs EXCEPT
          ![r] = [trigger |-> trigger,
                  status |-> IF trigger = "update_data" THEN "gather"
                             ELSE "sensors",
                  phase |-> [n \in Collected |->
                               IF trigger = "update_data"
                               THEN IF n \in Range(_classes)
                                    THEN "pending" ELSE "none"
                               ELSE IF n = "sensors"
                                    THEN "pending" ELSE "none"],
                  sample |-> {}]]
    /\ UNCHANGED << table, readout, last, events, sessionVars, sending >>

\* SensorsUpdate.update_all_data, first statement: the table is cleared
sensors_clear(r) ==
    /\ runs[r].status = "sensors"
    /\ runs[r].phase["sensors"] = "pending"
    /\ table' = clear_table(table)
    /\ runs' = SetPhase(r, "sensors", "cleared")
    /\ UNCHANGED << readout, last, events, sessionVars, sending >>

\* SensorsUpdate.update_all_data, the gather of update_fans,
\* update_temperatures and update_windows_sensors: the rows of what the
\* sampling found are upserted
sensors_update(r, S) ==
    /\ runs[r].status = "sensors"
    /\ runs[r].phase["sensors"] = "cleared"
    /\ table' = update_data_rows(table, S, r)
    /\ runs' = [runs EXCEPT ![r].phase["sensors"] = "refreshed",
                            ![r].sample = S]
    /\ last' = [run |-> r, sample |-> S]
    /\ UNCHANGED << readout, events, sessionVars, sending >>

\* the sampling raises: update_frequent_data awaits it directly, so the
\* trigger ends with the exception
sensors_raises(r) ==
    /\ runs[r].status = "sensors"
    /\ runs[r].phase["sensors"] = "cleared"
    /\ runs' = [runs EXCEPT ![r].phase = NoRun.phase,
                            ![r].status = "raised"]
    /\ UNCHANGED << table, readout, last, events, sessionVars, sending >>

\* update_frequent_data: updated_callback("sensors"), then the tasks of
\* _classes_frequent are created and gathered
sensors_notified(r) ==
    /\ runs[r].status = "sensors"
    /\ runs[r].phase["sensors"] = "refreshed"
    /\ runs' = [runs EXCEPT
          ![r].status = "gather",
          ![r].sample = {},
          ![r].phase = [n \in Collected |->
                          IF n = "sensors" THEN "notified"
                          ELSE IF n \in Range(_classes_frequent)
                          THEN "pending" ELSE "none"]]
    /\ UNCHANGED << table, readout, last, events, sessionVars, sending >>

\* a gathered _update task: await class_obj["cls"].update_all_data()
update_all_data(r, name) ==
    /\ runs[r].status \in {"gather", "failing"}
    /\ runs[r].phase[name] = "pending"
    /\ runs' = SetPhase(r, name, "refreshed")
    /\ UNCHANGED << table, readout, last, events, sessionVars, sending >>

\* a gathered _update task whose collector raises, the first of its
\* run: gather hands the exception to the trigger, which resumes later
update_all_data_raises(r, name) ==
    /\ runs[r].status = "gather"
    /\ runs[r].phase[name] = "pending"
    /\ runs' = [runs EXCEPT ![r].phase[name] = "failed",
                            ![r].status = "failing"]
    /\ UNCHANGED << table, readout, last, events, sessionVars, sending >>

\* an _update task that notifies without awaiting its collector
updated_callback_unawaited(r, name) ==
    /\ runs[r].status \in {"gather", "failing"}
    /\ runs[r].phase[name] \in {"pending", "refreshed"}
    /\ runs' = SetPhase(r, name, "notified")
    /\ UNCHANGED << table, readout, last, events, sessionVars, sending >>

\* a gathered _update task: await self.updated_callback(class_obj["name"])
updated_callback(r, name) ==
    /\ runs[r].status \in {"gather", "failing"}
    /\ runs[r].phase[name] = "refreshed"
    /\ runs' = SetPhase(r, name, "notified")
    /\ UNCHANGED << table, readout, last, events, sessionVars, sending >>

\* a wait that returns with the first task that has completed
gather_returns_first(r) ==
    /\ runs[r].status = "gather"
    /\ \E n \in TriggerSet(runs[r].trigger) : runs[r].phase[n] = "notified"
    /\ runs' = [runs EXCEPT ![r].status = "returned",
                            ![r].phase = NoRun.phase]
    /\ UNCHANGED << table, readout, last, events, sessionVars, sending >>

\* a gather that also waits for the categories of the other trigger
gather_returns_all_modules(r) ==
    /\ runs[r].status = "gather"
    /\ \A n \in Collected : runs[r].phase[n] = "notified"
    /\ runs' = [runs EXCEPT ![r].status = "returned",
                            ![r].phase = NoRun.phase]
    /\ UNCHANGED << table, readout, last, events, sessionVars, sending >>

\* asyncio.gather returns once every task has: the trigger returns
gather_returns(r) ==
    /\ runs[r].status = "gather"
    /\ \A n \in TriggerSet(runs[r].trigger) : runs[r].phase[n] = "notified"
    /\ runs' = [runs EXCEPT ![r].status = "returned",
                            ![r].phase = NoRun.phase]
    /\ UNCHANGED << table, readout, last, events, sessionVars, sending >>

\* a gather that hands exceptions back as results: the trigger returns
gather_return_exceptions(r) ==
    /\ runs[r].status = "failing"
    /\ runs' = [runs EXCEPT ![r].status = "returned",
                            ![r].phase = NoRun.phase]
    /\ UNCHANGED << table, readout, last, events, sessionVars, sending >>

\* the await of asyncio.gather raises the first exception; asyncio.run
\* cancels the tasks still pending and the thread ends
gather_raises(r) ==
    /\ runs[r].status = "failing"
    /\ runs' = [runs EXCEPT ![r].status = "raised",
                            ![r].phase = NoRun.phase]
    /\ UNCHANGED << table, readout, last, events, sessionVars, sending >>

\* get-data for ["sensors"]: data = self._database.get_data_dict(table),
\* read by the session's thread whatever the scheduler's threads are at
read_sensors ==
    /\ readout' = [read |-> TRUE, data |-> get_data_dict(table)]
    /\ readout' # readout
    /\ UNCHANGED << runs, table, last, events, sessionVars, sending >>

NoOtherInFlight(r) == \A q \in RunIds \ {r} : ~InFlight(q)

\* the triggers invoked one after the other, their gathered tasks
\* interleaved in every way, collectors that raise
NextSched ==
    \/ \E r \in RunIds, t \in Triggers :
          NoOtherInFlight(r) /\ request_update(r, t)
    \/ \E r \in RunIds : sensors_clear(r)
    \/ \E r \in RunIds, S \in SUBSET RowKeys : sensors_update(r, S)
    \/ \E r \in RunIds : sensors_raises(r)
    \/ \E r \in RunIds : sensors_notified(r)
    \/ \E r \in RunIds, n \in Collected : update_all_data(r, n)
    \/ \E r \in RunIds, n \in Collected : update_all_data_raises(r, n)
    \/ \E r \in RunIds, n \in Collected : updated_callback(r, n)
    \/ \E r \in RunIds : gather_returns(r)
    \/ \E r \in RunIds : gather_raises(r)

\* the tasks of a gather run one after the other, in the order of the list
InListOrder(r, name) ==
    LET list == IF runs[r].trigger = "update_data"
                THEN _classes ELSE _classes_frequent
    IN \A i, j \in DOMAIN list :
          i < j /\ list[j] = name => runs[r].phase[list[i]] = "notified"

\* trigger invocations that overlap, each running its gathered tasks one
\* after the other, and a session reading the sensors table meanwhile
NextOverlap ==
    \/ \E r \in RunIds, t \in Triggers : request_update(r, t)
    \/ \E r \in RunIds : sensors_clear(r)
    \/ \E r \in RunIds, S \in SUBSET RowKeys : sensors_update(r, S)
    \/ \E r \in RunIds : sensors_raises(r)
    \/ \E r \in RunIds : sensors_notified(r)
    \/ \E r \in RunIds, n \in Collected :
          InListOrder(r, n) /\ update_all_data(r, n)
    \/ \E r \in RunIds, n \in Collected : updated_callback(r, n)
    \/ \E r \in RunIds : gather_returns(r)
    \/ read_sensors

InitSched == Init /\ store = [m \in Range(MODULES) |-> 0]

SpecSched == InitSched /\ [][NextSched]_vars

SpecOverlap == InitSched /\ [][NextOverlap]_vars

\* the steps of the invocation r in its thread: the refreshes and the
\* callbacks it awaits, returning or raising, and the end of its gather
Invocation(r) ==
    \/ sensors_clear(r)
    \/ \E S \in SUBSET RowKeys : sensors_update(r, S)
    \/ sensors_raises(r)
    \/ sensors_notified(r)
    \/ \E n \in Collected : update_all_data(r, n)
    \/ \E n \in Collected : update_all_data_raises(r, n)
    \/ \E n \in Collected : updated_callback(r, n)
    \/ gather_returns(r)
    \/ gather_raises(r)

\* the triggers invoked one after the other, their gathered tasks
\* interleaved in every way, collectors that raise, one outcome of the
\* sensors' sampling
NextTerm ==
    \/ \E r \in RunIds, t \in Triggers :
          NoOtherInFlight(r) /\ request_update(r, t)
    \/ \E r \in RunIds : sensors_clear(r)
    \/ \E r \in RunIds : sensors_update(r, {"fans"})
    \/ \E r \in RunIds : sensors_raises(r)
    \/ \E r \in RunIds : sensors_notified(r)
    \/ \E r \in RunIds, n \in Collected : update_all_data(r, n)
    \/ \E r \in RunIds, n \in Collected : update_all_data_raises(r, n)
    \/ \E r \in RunIds, n \in Collected : updated_callback(r, n)
    \/ \E r \in RunIds : gather_returns(r)
    \/ \E r \in RunIds : gather_raises(r)

\* every thread started keeps being scheduled, and every refresh and every
\* callback it awaits terminates
SpecTerm ==
    /\ InitSched /\ [][NextTerm]_vars
    /\ \A r \in RunIds : WF_vars(Invocation(r))

\* Data.request_update_events_data: UpdateEventsThread.__init__ on a host
\* whose platform.system() is p; the Media collector is created on Windows
\* only
request_update_events_data(p) ==
    /\ events.status = "none"
    /\ events' = [events EXCEPT !.platform = p,
                                !.status = "constructed",
                                !.collector = (p = "Windows")]
    /\ UNCHANGED << runs, table, readout, last, sessionVars, sending >>

\* a run() without the platform check
UpdateEventsThread_run_ungated ==
    /\ events.status = "constructed"
    /\ events' = [events EXCEPT !.status = "running"]
    /\ UNCHANGED << runs, table, readout, last, sessionVars, sending >>

\* UpdateEventsThread.run: returns at once unless the platform is Windows,
\* else enters asyncio.run(self._media.update_media_info())
UpdateEventsThread_run ==
    /\ events.status = "constructed"
    /\ events' = [events EXCEPT
          !.status = IF events.platform # "Windows"
                     THEN "returned" ELSE "running"]
    /\ UNCHANGED << runs, table, readout, last, sessionVars, sending >>

\* Media.update_media_info, a change of the media session: the media
\* table is rewritten
update_media_info(k) ==
    /\ events.status = "running"
    /\ events.phase = "idle"
    /\ events.writes < MaxMedia
    /\ events' = [events EXCEPT !.phase = "refreshed", !.writes = @ + k]
    /\ UNCHANGED << runs, table, readout, last, sessionVars, sending >>

\* Media.update_media_info: await self._changed_callback("media")
media_changed_callback(name) ==
    /\ events.status = "running"
    /\ events.phase = "refreshed"
    /\ name \in EventsSet
    /\ events' = [events EXCEPT !.phase = "idle", !.notified = @ + 1]
    /\ UNCHANGED << runs, table, readout, last, sessionVars, sending >>

\* no invocation of trigger t is in flight
NoneInFlight(t) == \A q \in RunIds : InFlight(q) => runs[q].trigger # t

\* the three triggers in flight at once: one invocation of update_data
\* and one of update_frequent_data at a time, overlapping each other, each
\* running its gathered tasks in list order, and the platform-events
\* thread
NextTriggers ==
    \/ \E r \in RunIds, t \in Triggers :
          NoneInFlight(t) /\ request_update(r, t)
    \/ \E r \in RunIds : sensors_clear(r)
    \/ \E r \in RunIds : sensors_update(r, {"fans"})
    \/ \E r \in RunIds : sensors_notified(r)
    \/ \E r \in RunIds, n \in Collected :
          InListOrder(r, n) /\ update_all_data(r, n)
    \/ \E r \in RunIds, n \in Collected : updated_callback(r, n)
    \/ \E r \in RunIds : gather_returns(r)
    \/ \E p \in Platforms : request_update_events_data(p)
    \/ UpdateEventsThread_run
    \/ update_media_info(1)
    \/ \E n \in EventsSet : media_changed_callback(n)

SpecTriggers == InitSched /\ [][NextTriggers]_vars

(* ------------------------- two sessions dispatching --------------------- *)

\* authenticated requests whose dispatch makes one send (register) or one
\* send per module (get-data)
PairInbound ==
    { m \in Inbound :
        /\ m.kind = "request"
        /\ m.api_key = SECRET_API_KEY
        /\ m.event \in {TYPE_REGISTER_DATA_LISTENER, TYPE_GET_DATA}
        /\ m.modules # <<>> }

NextPair ==
    \/ \E c \in Conns, m \in PairInbound : Receive(c, m)
    \/ \E c \in Conns, k \in RaiseKinds : ReceiveFails(c, k)
    \/ \E c \in Conns, k \in RaiseKinds : Handle(c, k)
    \/ \E c \in Conns, k \in RaiseKinds : GetDataStep(c, k)
    \/ \E c \in Conns : Loop(c)
    \/ \E c \in Conns : handler(c)
    \/ \E c \in Conns : Disconnect(c)

\* two sessions on one event loop, each receiving and dispatching requests
\* whose handlers await several sends
SpecPair == InitConns /\ [][NextPair]_vars

(* ----------------------- triggers and client traffic -------------------- *)

\* the get-data request the session of this specification receives
TrafficInbound ==
    { m \in Inbound :
        /\ m.kind = "request"
        /\ m.api_key = SECRET_API_KEY
        /\ m.event = TYPE_GET_DATA
        /\ m.modules = <<"cpu", "memory">> }

\* the steps of the invocation r of a trigger, in its own thread
RunStep(r) ==
    \/ sensors_clear(r)
    \/ sensors_update(r, {"fans"})
    \/ sensors_notified(r)
    \/ \E n \in Collected : InListOrder(r, n) /\ update_all_data(r, n)
    \/ \E n \in Collected : updated_callback(r, n)
    \/ gather_returns(r)

NextTraffic ==
    \/ \E r \in RunIds, t \in Triggers :
          NoneInFlight(t) /\ request_update(r, t)
    \/ \E r \in RunIds : RunStep(r)
    \/ request_update_events_data("Windows")
    \/ UpdateEventsThread_run
    \/ \E c \in Conns, m \in TrafficInbound : Receive(c, m)
    \/ \E c \in Conns : Handle(c, "connection_error")
    \/ \E c \in Conns : GetDataStep(c, "connection_error")
    \/ \E c \in Conns : Loop(c)

\* the three triggers on a host that supports the platform events, each
\* in its own thread (the platform-events thread stays in its loop once it
\* runs), and one session on the server's event loop
SpecTraffic == InitSched /\ [][NextTraffic]_vars

(* ---------------------- one session to its closing ---------------------- *)

\* a registration, a get-data of two modules and a power event whose
\* operating-system call returns or raises
CloseInbound ==
    { EventMsg(TYPE_REGISTER_DATA_LISTENER, <<"cpu", "memory">>, NoArgs),
      EventMsg(TYPE_GET_DATA, <<"disk", "cpu">>, NoArgs) }
    \cup { EventMsg("power-sleep", <<>>, Args(TRUE, "", 0, r)) : r \in BOOLEAN }

\* set_active(false) called while the first send of a dispatch is awaited
\* on a dead socket: the send raises, and the send of the except clause
\* that follows finds the session inactive and returns without sending
set_active_in_send(c) ==
    /\ pc[c] = "handle"
    /\ Dispatches(c)
    /\ active[c] /\ ~alive[c]
    /\ LET m == cur[c]
           r == _handle_event(c, m, listeners)
       IN /\ RaisesOf(r) # "before"
          /\ r.sends # <<>>
          /\ LET e == _send_response(c, r.sends[1])
                 net == [to |-> c,
                         msg |-> ErrorResponse(m.id, "unknown_event",
                                               ExceptionText),
                         outcome |-> "silenced"]
             IN Settle(c, << e, net >>, r.listeners, "done",
                       "connection_error", r.op, r.exits, TRUE)
          /\ effects' = [effects EXCEPT ![c] = CallsMade(c, r)]
          /\ settings' = IF SettingOf(r) # ""
                         THEN settings_set(settings, r.setting, r.value)
                         ELSE settings
    /\ active' = [active EXCEPT ![c] = FALSE]
    /\ UNCHANGED << alive, cur, store, notifies, nmsgs, nupdates,
                    schedVars, sending >>

NextClose ==
    \/ \E c \in Conns, m \in CloseInbound : Receive(c, m)
    \/ \E c \in Conns, k \in RaiseKinds : ReceiveFails(c, k)
    \/ \E c \in Conns, k \in RaiseKinds : Handle(c, k)
    \/ \E c \in Conns, k \in RaiseKinds : GetDataStep(c, k)
    \/ \E c \in Conns : Loop(c)
    \/ \E c \in Conns : handler(c)
    \/ \E c \in Conns, b \in BOOLEAN : set_active(c, b)
    \/ \E c \in Conns : set_active_in_send(c)
    \/ \E c \in Conns : Disconnect(c)

\* the steps the coroutine of session c takes by itself once its awaited
\* call has returned or raised; a receive on an open socket waits for the
\* client
Coroutine(c) ==
    \/ \E k \in RaiseKinds : ReceiveFails(c, k)
    \/ \E k \in RaiseKinds : Handle(c, k)
    \/ \E k \in RaiseKinds : GetDataStep(c, k)
    \/ Loop(c)
    \/ handler(c)

\* one session whose coroutine keeps being scheduled by the event loop
\* and whose sends return or raise
SpecClose ==
    /\ Init /\ [][NextClose]_vars
    /\ WF_vars(Coroutine("A"))

(* ------------------------------ properties ----------------------------- *)

\* the responses of a log of _send_response calls that were written to the
\* connection, in order
Sent(log) ==
    LET s == SelectSeq(log, LAMBDA e : e.outcome = "sent")
    IN [i \in 1..Len(s) |-> s[i].msg]

\* once _handler is left the session receives nothing more
StaysClosed(c) ==
    pc[c] \in {"leaving", "closed"} =>
        /\ pc'[c] \in {"leaving", "closed"}
        /\ cur'[c] \in {cur[c], NoMsg}

\* the step that handles a received request whose api_key is not the secret
BadKeyStep(c) ==
    /\ pc[c] = "handle"
    /\ pc'[c] # "handle"
    /\ cur[c].kind = "request"
    /\ cur[c].api_key # SECRET_API_KEY

BadKeyReply(c) == ErrorResponse(cur[c].id, "bad_api_key", "Invalid api-key")

\* what a wrong key leaves behind in every case: nothing dispatched, no
\* handler's side effect, _handler left
BadKeyRejected(c) ==
    /\ ~disp'[c]
    /\ listeners' = listeners
    /\ exits'[c] = 0
    /\ pc'[c] = "leaving"

\* C1 as stated: every message with a wrong api_key is answered by exactly
\* one Response written to the connection (error, bad_api_key, the request's
\* id), nothing is dispatched, and the session is closed for good.
C1_every_bad_key_answered ==
    [][\A c \in Conns :
         /\ BadKeyStep(c) =>
               /\ Sent(resp'[c]) = << BadKeyReply(c) >>
               /\ BadKeyRejected(c)
         /\ StaysClosed(c)]_vars

\* C1, amended: a message with a wrong api_key makes the session hand exactly
\* one Response (error, bad_api_key, the request's id) to _send_response,
\* which is written to the connection exactly when the session is still
\* active and its socket open, and is otherwise lost; in every case nothing is
\* dispatched and the session is closed for good.
C1_bad_key_closes ==
    [][\A c \in Conns :
         /\ BadKeyStep(c) =>
               /\ Len(resp'[c]) = 1
               /\ resp'[c][1].msg = BadKeyReply(c)
               /\ Sent(resp'[c]) = IF active[c] /\ alive[c]
                                   THEN << BadKeyReply(c) >> ELSE <<>>
               /\ BadKeyRejected(c)
         /\ StaysClosed(c)]_vars

\* a wrong key has been answered on the connection and _handler is left
C1_witness ==
    \E c \in Conns :
        /\ pc[c] = "leaving"
        /\ exitPath[c] = "bad_api_key"
        /\ cur[c].api_key # SECRET_API_KEY
        /\ Sent(resp[c]) = << ErrorResponse(cur[c].id, "bad_api_key",
                                            "Invalid api-key") >>

\* C2: a message is dispatched only if its own api_key equals the secret
\* when it is handled, whatever was accepted on the connection before: in
\* every state, the message a session has handed to _handle_event carries
\* the secret.
C2_dispatch_needs_own_key ==
    \A c \in Conns :
        disp[c] => /\ cur[c].kind = "request"
                   /\ cur[c].api_key = SECRET_API_KEY

\* a session that had a registration accepted has just refused, without
\* dispatching it, a later message with a wrong key
C2_witness ==
    \E c \in Conns :
        /\ ops[c] # <<>>
        /\ cur[c].kind = "request"
        /\ cur[c].id > 1
        /\ cur[c].api_key # SECRET_API_KEY
        /\ pc[c] = "leaving"
        /\ ~disp[c]

\* the ways _handler is left
ExitPaths ==
    { "bad_json", "bad_request", "bad_api_key", "connection_error",
      "exception", "inactive" }

\* C3: whichever way _handler was left (bad_json, bad_request, bad_api_key,
\* a connection error or disconnect, the loop's exit after set_active(false),
\* any other exception), once handler() has finished the registry holds no
\* registration for the connection.
C3_closed_not_registered ==
    \A c \in Conns :
        pc[c] = "closed" =>
            /\ exitPath[c] \in ExitPaths
            /\ ~IsRegistered(listeners, c)
            /\ ops[c] # <<>> /\ ops[c][Len(ops[c])] = "teardown"

\* a session that held a registration was left by an exception handler()
\* does not catch, and handler() has finished
C3_witness ==
    \E c \in Conns :
        /\ pc[c] = "closed"
        /\ exitPath[c] = "exception"
        /\ Len(ops[c]) = 2
        /\ ops[c][1] = "register"

\* the connection was closed abruptly and handler() has finished
TornDown(c) == pc[c] = "closed" /\ ~alive[c]

\* the callback invocations a step adds
NewDeliveries ==
    (UNION {n.delivered : n \in notifies'}) \ (UNION {n.delivered : n \in notifies})

\* the calls of notify a step starts
NewNotifies == {n \in notifies' \ notifies : n.delivered = {}}

\* C4 as stated: once a connection was closed abruptly and torn down, no
\* notification is delivered or attempted to its callback, a notify running
\* concurrently with the teardown included.
C4_never_attempted ==
    [][\A d \in NewDeliveries : ~TornDown(d.reg.callback)]_vars

\* C4, amended: once a connection was closed abruptly and torn down, no
\* notify that starts afterwards has it among the registrations it serves,
\* and nothing is written to it any more; a notify that copied the
\* registrations before the teardown still invokes its callback, whose
\* send fails.
C4_not_served_after_teardown ==
    [][/\ \A n \in NewNotifies : \A r \in n.pending : ~TornDown(r.id)
       /\ \A d \in NewDeliveries :
             TornDown(d.reg.callback) => Sent(d.log) = <<>>]_vars

\* a notify in progress still has to serve the registration of a
\* connection that was closed abruptly and torn down meanwhile
C4_witness ==
    \E n \in notifies : \E r \in n.pending :
        TornDown(r.id) /\ ~IsRegistered(listeners, r.id)

\* a registration is created with the modules of the request being handled
RegisteredAsRequested ==
    \A c \in Conns :
        ~IsRegistered(listeners, c) /\ IsRegistered(listeners', c) =>
            {r \in listeners' : r.id = c}
                = {Registration(c, c, cur[c].modules)}

\* the notify of a refreshed category serves exactly the registrations
\* that contain the category when it starts
ServesSubscribers ==
    \A name \in Range(MODULES) :
        store'[name] # store[name] =>
            LET subs == {r \in listeners : name \in Range(r.modules)} IN
            /\ subs = {} => NewNotifies = {}
            /\ subs # {} => \E n \in NewNotifies : NewNotifies = {n}
            /\ \A n \in NewNotifies :
                  /\ n.module = name
                  /\ n.data = store'[name]
                  /\ n.pending = subs

\* the callback invoked for a registration pushes the notified category,
\* one of the registration's modules, on the registration's connection
PushesNotified(d) ==
    /\ Len(d.log) = 1
    /\ d.log[1].to = d.reg.id
    /\ d.log[1].msg.type = TYPE_DATA_UPDATE
    /\ d.log[1].msg.module \in Range(d.reg.modules)
    /\ \E n \in notifies :
          /\ d.reg \in n.pending
          /\ n.module = d.log[1].msg.module
          /\ n.data = d.log[1].msg.data

\* C5 as stated: when the registry notifies category C, a connection
\* receives a data-update for C if and only if it holds a registration
\* whose modules contain C.
C5_every_subscriber_receives ==
    [][/\ RegisteredAsRequested
       /\ ServesSubscribers
       /\ \A d \in NewDeliveries :
             PushesNotified(d) /\ Sent(d.log) = << d.log[1].msg >>]_vars

\* C5, amended: when the registry notifies category C, data-updates for C
\* are pushed only to the connections that hold, when the notify starts, a
\* registration whose modules (those of its register request) contain C,
\* and each of them receives the push if its session is active and its
\* socket open when its callback runs, and nothing otherwise; a connection
\* subscribed to {cpu, memory} is not served when disk changes.
C5_fan_out_filtered ==
    [][/\ RegisteredAsRequested
       /\ ServesSubscribers
       /\ \A d \in NewDeliveries :
             /\ PushesNotified(d)
             /\ Sent(d.log) =
                   IF active[d.reg.callback] /\ alive[d.reg.callback]
                   THEN << d.log[1].msg >> ELSE <<>>]_vars

\* a connection registered for {cpu, memory} has been pushed the cpu data
C5_witness ==
    \E n \in notifies : \E d \in n.delivered :
        /\ n.module = "cpu"
        /\ d.reg.modules = <<"cpu", "memory">>
        /\ Sent(d.log) # <<>>

\* the step that dispatches an authenticated request for `event`
DispatchStep(c, event) ==
    /\ pc[c] = "handle"
    /\ pc'[c] # "handle"
    /\ cur[c].kind = "request"
    /\ cur[c].api_key = SECRET_API_KEY
    /\ cur[c].event = event

\* the reply is the first response of the step, written to the connection
\* if the session is active and its socket open, lost otherwise
RepliesIfOpen(c, reply) ==
    /\ resp'[c] # <<>>
    /\ resp'[c][1].msg = reply
    /\ Sent(resp'[c]) = IF active[c] /\ alive[c] THEN << reply >> ELSE <<>>

AlreadyRegisteredReply(c) ==
    Response(cur[c].id, TYPE_ERROR, "listener_already_registered",
             "Listener already registered with this connection",
             "", cur[c].modules, 0, "")

\* a register-data-listener with modules on a connection that holds a
\* registration
SecondRegisterStep(c) ==
    /\ DispatchStep(c, TYPE_REGISTER_DATA_LISTENER)
    /\ cur[c].modules # <<>>
    /\ IsRegistered(listeners, c)

\* C6 as stated: a second register-data-listener without an intervening
\* unregister is rejected: add_listener returns already_registered, the
\* session replies with the error listener_already_registered, and the
\* registration the connection holds is left as it is.
C6_second_register_answered ==
    [][\A c \in Conns :
         SecondRegisterStep(c) =>
            /\ add_listener(listeners, c, c, cur[c].modules).already
            /\ listeners' = listeners
            /\ Sent(resp'[c]) = << AlreadyRegisteredReply(c) >>]_vars

\* C6, amended: a second register-data-listener without an intervening
\* unregister is rejected: add_listener returns already_registered, the
\* registration the connection holds is left as it is, and the session
\* hands the error listener_already_registered to _send_response, which
\* reaches the client if the session is active and its socket open.
C6_second_register_rejected ==
    [][\A c \in Conns :
         SecondRegisterStep(c) =>
            /\ add_listener(listeners, c, c, cur[c].modules).already
            /\ listeners' = listeners
            /\ ops'[c] = ops[c]
            /\ RepliesIfOpen(c, AlreadyRegisteredReply(c))]_vars

\* a register for other modules was answered listener_already_registered
\* and the registration still has the modules it was created with
C6_witness ==
    \E c \in Conns : \E r \in listeners :
        /\ pc[c] = "done"
        /\ cur[c].event = TYPE_REGISTER_DATA_LISTENER
        /\ r.id = c
        /\ r.modules # cur[c].modules
        /\ Sent(resp[c]) # <<>>
        /\ resp[c][1].msg.subtype = "listener_already_registered"

NotRegisteredReply(c) ==
    ErrorResponse(cur[c].id, "listener_not_registered",
                  "Listener not registered with this connection")

\* an unregister-data-listener on a connection that holds no registration
VainUnregisterStep(c) ==
    /\ DispatchStep(c, TYPE_UNREGISTER_DATA_LISTENER)
    /\ ~IsRegistered(listeners, c)

\* the finally block of handler() running for a connection that holds no
\* registration
VainTeardownStep(c) ==
    /\ pc[c] = "leaving"
    /\ pc'[c] = "closed"
    /\ ~IsRegistered(listeners, c)

\* remove_listener for an id without registration: existed is false and
\* the registry is the same
VainRemove(c) ==
    ~IsRegistered(listeners, c) =>
        remove_listener(listeners, c)
            = [existed |-> FALSE, listeners |-> listeners]

\* C7 as stated: remove_listener on an id that holds no registration
\* returns false and changes nothing; an unregister-data-listener request
\* in that situation yields the error listener_not_registered; the
\* remove_listener of the teardown after an explicit unregister is harmless.
C7_vain_unregister_answered ==
    [][\A c \in Conns :
         /\ VainRemove(c)
         /\ VainUnregisterStep(c) =>
               /\ listeners' = listeners
               /\ Sent(resp'[c]) = << NotRegisteredReply(c) >>
         /\ VainTeardownStep(c) => listeners' = listeners]_vars

\* C7, amended: remove_listener on an id that holds no registration returns
\* false and changes nothing; an unregister-data-listener request in that
\* situation makes the session hand the error listener_not_registered to
\* _send_response, which reaches the client if the session is active and its
\* socket open; the remove_listener of the teardown after an explicit
\* unregister is harmless.
C7_vain_unregister_rejected ==
    [][\A c \in Conns :
         /\ VainRemove(c)
         /\ VainUnregisterStep(c) =>
               /\ listeners' = listeners
               /\ ops'[c] = ops[c]
               /\ RepliesIfOpen(c, NotRegisteredReply(c))
         /\ VainTeardownStep(c) => listeners' = listeners]_vars

\* after a register and an unregister that succeeded, a second unregister
\* was answered listener_not_registered
C7_witness ==
    \E c \in Conns :
        /\ pc[c] = "done"
        /\ ops[c] = << "register", "unregister" >>
        /\ cur[c].event = TYPE_UNREGISTER_DATA_LISTENER
        /\ Sent(resp[c]) # <<>>
        /\ resp[c][1].msg.subtype = "listener_not_registered"

\* C8: in every state each connection id holds at most one registration,
\* and holds one exactly when the last registry operation that succeeded
\* for it is a register-data-listener and the connection is not torn down.
C8_one_registration_per_id ==
    \A c \in Conns :
        /\ Cardinality({r \in listeners : r.id = c}) <= 1
        /\ IsRegistered(listeners, c) <=>
              /\ ops[c] # <<>>
              /\ ops[c][Len(ops[c])] = "register"
              /\ pc[c] # "closed"

\* register, unregister, register on one connection each succeeded, and
\* the connection holds the registration of the last one
C8_witness ==
    \E c \in Conns : \E r \in listeners :
        /\ ops[c] = << "register", "unregister", "register" >>
        /\ pc[c] = "done"
        /\ r = Registration(c, c, cur[c].modules)

\* the registrations held under a connection's id
Held(L, c) == {r \in L : r.id = c}

\* the callback registered under an id is that connection's own, and what
\* a callback invoked by notify sends goes to the connection whose
\* registration it serves
OwnSocketOnly ==
    /\ \A r \in listeners : r.callback = r.id
    /\ \A n \in notifies :
          /\ \A r \in n.pending : r.callback = r.id
          /\ \A d \in n.delivered :
                /\ d.reg.callback = d.reg.id
                /\ \A i \in 1..Len(d.log) : d.log[i].to = d.reg.id

\* C9: with several connections, the callback registered under a
\* connection's id sends only on that connection's socket, a push reaches a
\* connection only through the registration held under its own id, and
\* only a step of the connection itself (its register, unregister or
\* teardown) adds, changes or removes the registration held under its id.
C9_no_cross_connection_leak ==
    [][/\ OwnSocketOnly'
       /\ \A a \in Conns :
             Held(listeners', a) # Held(listeners, a) =>
                /\ pc[a] \in {"handle", "leaving"}
                /\ pc'[a] # pc[a]
                /\ \A b \in Conns \ {a} :
                      Held(listeners', b) = Held(listeners, b)]_vars

\* one connection registered and was torn down; the other still holds its
\* registration and has been pushed a refreshed category on its own socket
C9_witness ==
    \E a \in Conns : \E b \in Conns \ {a} :
        /\ pc[b] = "closed"
        /\ ops[b] = << "register", "teardown" >>
        /\ IsRegistered(listeners, a)
        /\ \E n \in notifies : \E d \in n.delivered :
              /\ d.reg.id = a
              /\ Sent(d.log) # <<>>
              /\ d.log[1].to = a

GetDataAck(c) ==
    Response(cur[c].id, TYPE_DATA_GET, "", "Getting data", "",
             cur[c].modules, 0, "")

\* the data-update of get-data for the i-th requested module
GetDataUpdate(c, i) ==
    Response(cur[c].id, TYPE_DATA_UPDATE, "", "Data received",
             cur[c].modules[i], <<>>, store[cur[c].modules[i]], "")

\* the step that dispatches an authenticated get-data with modules
GetDataAckStep(c) ==
    DispatchStep(c, TYPE_GET_DATA) /\ cur[c].modules # <<>>

\* a turn of get-data's loop over the requested modules
GetDataLoopStep(c) == pc[c] = "getdata" /\ idx'[c] # idx[c]

\* the loop takes the requested modules one by one, in request order, and
\* the turn is over only after the last one unless a send raised
InRequestOrder(c) ==
    /\ idx[c] \in 1..Len(cur[c].modules)
    /\ pc'[c] = "getdata" => idx'[c] = idx[c] + 1
    /\ pc'[c] = "done" => idx[c] = Len(cur[c].modules)

\* C10 as stated: an authenticated get-data with modules is answered, in
\* order, by one ack (data-get, the request's id and modules) and then, for
\* each requested module in request order for which the Store returns
\* data, by one data-update with the same id and the module's snapshot.
C10_ack_then_every_update ==
    [][\A c \in Conns :
         /\ GetDataAckStep(c) => Sent(resp'[c]) = << GetDataAck(c) >>
         /\ GetDataLoopStep(c) =>
               /\ InRequestOrder(c)
               /\ Sent(resp'[c]) = Sent(resp[c]) \o
                     (IF store[cur[c].modules[idx[c]]] # 0
                      THEN << GetDataUpdate(c, idx[c]) >> ELSE <<>>)]_vars

\* C10, amended: an authenticated get-data with modules makes the session
\* produce, in order, one ack (data-get, the request's id and modules) and
\* then, for each requested module in request order for which the Store
\* returns data, one data-update with the same id and the module's
\* snapshot; each of them is written to the connection only if the session
\* is active and its socket open when it is sent, so the client receives
\* these responses in this order, less the ones produced after
\* set_active(false) or after the connection dropped.
C10_ack_then_updates_if_open ==
    [][\A c \in Conns :
         /\ GetDataAckStep(c) => RepliesIfOpen(c, GetDataAck(c))
         /\ GetDataLoopStep(c) =>
               /\ InRequestOrder(c)
               /\ Sent(resp'[c]) = Sent(resp[c]) \o
                     (IF /\ store[cur[c].modules[idx[c]]] # 0
                         /\ active[c] /\ alive[c]
                      THEN << GetDataUpdate(c, idx[c]) >> ELSE <<>>)]_vars

\* get-data for <<disk, cpu>> is over: the ack, then the snapshot of disk,
\* then the snapshot of cpu were written to the connection
C10_witness ==
    \E c \in Conns :
        /\ pc[c] = "done"
        /\ cur[c].event = TYPE_GET_DATA
        /\ cur[c].modules = << "disk", "cpu" >>
        /\ Len(Sent(resp[c])) = 3
        /\ Sent(resp[c])[1].type = TYPE_DATA_GET
        /\ Sent(resp[c])[2].module = "disk"
        /\ Sent(resp[c])[3].module = "cpu"

\* no refresh of the sensors is between its clear and its return
NoRefreshInProgress ==
    \A r \in RunIds : runs[r].phase["sensors"] # "cleared"

\* the rows the sampling of run r upserts when it finds the keys of S
RowsOf(r, S) == {[key |-> k, run |-> r] : k \in S}

\* C11: once a refresh of the sensors has completed and no other refresh of
\* them is in progress, what get-data reads from the table is exactly the
\* rows that most recent refresh upserted: every key it sampled, and no row
\* of an earlier sampling.
C11_get_data_returns_last_refresh ==
    [][(/\ readout' # readout
        /\ last.run # 0
        /\ NoRefreshInProgress)
          => readout'.data = RowsOf(last.run, last.sample)]_vars

\* the step of connection c that dispatches the request it holds, up to
\* the end of _handle_event's first send
Dispatch(c) ==
    /\ pc[c] = "handle"
    /\ pc'[c] # "handle"
    /\ Dispatches(c)

\* C12: every request that reaches the dispatcher yields exactly one
\* Response on its connection, save register / unregister and get-data;
\* exit-application, a valid media-control, update-setting, the power
\* events and unknown events each produce exactly one.
C12_exactly_one_response ==
    [][\A c \in Conns :
         (/\ Dispatch(c)
          /\ cur[c].event \notin {TYPE_REGISTER_DATA_LISTENER,
                                  TYPE_UNREGISTER_DATA_LISTENER,
                                  TYPE_GET_DATA})
            => Len(Sent(resp'[c])) = 1]_vars

\* a request its event's model accepts but that lacks the field the
\* family requires
MissingField(m) ==
    /\ m.kind = "request"
    /\ m.args.ok
    /\ \/ m.event \in {TYPE_REGISTER_DATA_LISTENER, TYPE_GET_DATA}
          /\ m.modules = <<>>
       \/ m.event \in {TYPE_KEYBOARD_KEYPRESS, TYPE_KEYBOARD_TEXT,
                       TYPE_MEDIA_CONTROL, TYPE_NOTIFICATION}
          /\ m.args.a = ""
       \/ m.event = TYPE_MEDIA_CONTROL
          /\ m.args.a \in ValueActions /\ m.args.v = 0
       \/ m.event = TYPE_OPEN /\ m.args.a = "neither"

\* the error subtype documented for each of them
DocumentedSubtype(m) ==
    CASE m.event \in {TYPE_REGISTER_DATA_LISTENER, TYPE_GET_DATA} ->
            "missing_modules"
      [] m.event = TYPE_KEYBOARD_KEYPRESS -> "missing_key"
      [] m.event = TYPE_KEYBOARD_TEXT -> "missing_text"
      [] m.event = TYPE_MEDIA_CONTROL ->
            IF m.args.a = "" THEN "missing_action" ELSE "missing_value"
      [] m.event = TYPE_NOTIFICATION -> "missing_title"
      [] OTHER -> "missing_path_url"

\* the first response of the turn is the documented error for the
\* request the session holds
DocumentedError(c) ==
    /\ resp'[c] # <<>>
    /\ resp'[c][1].msg.type = TYPE_ERROR
    /\ resp'[c][1].msg.subtype = DocumentedSubtype(cur[c])
    /\ resp'[c][1].msg.id = cur[c].id

\* nothing but responses came of the turn
NoSideEffect(c) ==
    /\ effects'[c] = <<>>
    /\ listeners' = listeners
    /\ settings' = settings
    /\ exits'[c] = 0
    /\ ops'[c] = ops[c]
    /\ pc'[c] # "getdata"

\* C13 as stated: a request missing a family-required field yields the
\* documented error subtype as its one Response and performs none of the
\* family's side effects; register-data-listener with modules [] leaves the
\* registry untouched.
C13_missing_field_answered ==
    [][\A c \in Conns :
         (Dispatch(c) /\ MissingField(cur[c])) =>
            /\ DocumentedError(c)
            /\ Sent(resp'[c]) = << resp'[c][1].msg >>
            /\ NoSideEffect(c)]_vars

\* C13, amended: a request missing a family-required field makes the
\* handler hand the documented error to _send_response before any side
\* effect and perform none: no keyboard, media, notification or open call,
\* the registry and the settings untouched; the error is written to the
\* connection exactly when the session is active and its socket open.
C13_validation_before_effects ==
    [][\A c \in Conns :
         (Dispatch(c) /\ MissingField(cur[c])) =>
            /\ DocumentedError(c)
            /\ Sent(resp'[c]) = IF active[c] /\ alive[c]
                                THEN << resp'[c][1].msg >> ELSE <<>>
            /\ NoSideEffect(c)]_vars

\* a seek without value was answered missing_value while the connection
\* held a registration
C13_witness ==
    \E c \in Conns :
        /\ pc[c] = "done"
        /\ cur[c].event = TYPE_MEDIA_CONTROL
        /\ cur[c].args.a = "seek"
        /\ cur[c].args.v = 0
        /\ Len(Sent(resp[c])) = 1
        /\ Sent(resp[c])[1].subtype = "missing_value"
        /\ effects[c] = <<>>
        /\ IsRegistered(listeners, c)

\* the step that dispatches a request of the event whose model accepted
\* the payload
AcceptedStep(c, event) ==
    /\ Dispatch(c)
    /\ cur[c].event = event
    /\ cur[c].args.ok

UpdateSettingReply(c) ==
    Reply(cur[c].id, "setting-updated", "Setting updated")
       @@ [setting |-> cur[c].args.a, value |-> cur[c].args.v]

\* get-setting's reply carrying value as its data
GetSettingReply(c, value) ==
    Response(cur[c].id, "setting-result", "", "Got setting", "", <<>>,
             value, "")
       @@ [setting |-> cur[c].args.a]

\* the turn's first response is `reply`, and it is the first one written
\* to the connection when the session is active and its socket open;
\* otherwise nothing is written
FirstReplyIfOpen(c, reply) ==
    /\ resp'[c] # <<>>
    /\ resp'[c][1].msg = reply
    /\ IF active[c] /\ alive[c]
       THEN Sent(resp'[c]) # <<>> /\ Sent(resp'[c])[1] = reply
       ELSE Sent(resp'[c]) = <<>>

\* the settings change only by an update-setting, and only the setting
\* it names
OnlyUpdateSettingWrites ==
    \A x \in SettingNames :
        settings'[x] # settings[x] =>
            \E c \in Conns :
                AcceptedStep(c, TYPE_UPDATE_SETTING) /\ cur[c].args.a = x

\* C14 as stated: update-setting {X, V} is answered by a Response echoing
\* X and V, and a get-setting {X} that follows with no other update of X
\* in between is answered by a Response whose data is V.
C14_round_trip_answered ==
    [][/\ OnlyUpdateSettingWrites
       /\ \A c \in Conns :
            /\ AcceptedStep(c, TYPE_UPDATE_SETTING) =>
                  /\ settings'[cur[c].args.a] = cur[c].args.v
                  /\ Sent(resp'[c]) # <<>>
                  /\ Sent(resp'[c])[1] = UpdateSettingReply(c)
            /\ AcceptedStep(c, TYPE_GET_SETTING) =>
                  Sent(resp'[c])
                     = << GetSettingReply(c, settings[cur[c].args.a]) >>]_vars

\* C14, amended: update-setting {X, V} stores V under X and hands
\* _send_response a Response echoing X and V; nothing but an update-setting
\* of X changes what is stored under X; get-setting {X} hands _send_response
\* a Response whose data is the value stored under X, hence V after an
\* update-setting {X, V} with no other update of X in between.  Each of the
\* two Responses is written to the connection exactly when the session is
\* active and its socket open.
C14_settings_round_trip ==
    [][/\ OnlyUpdateSettingWrites
       /\ \A c \in Conns :
            /\ AcceptedStep(c, TYPE_UPDATE_SETTING) =>
                  /\ settings'[cur[c].args.a] = cur[c].args.v
                  /\ FirstReplyIfOpen(c, UpdateSettingReply(c))
            /\ AcceptedStep(c, TYPE_GET_SETTING) =>
                  /\ FirstReplyIfOpen(c,
                        GetSettingReply(c, settings[cur[c].args.a]))
                  /\ settings' = settings]_vars

\* a get-setting was answered with the value an earlier update-setting
\* of the same session stored
C14_witness ==
    \E c \in Conns :
        /\ pc[c] = "done"
        /\ cur[c].event = TYPE_GET_SETTING
        /\ cur[c].args.a = "log_level"
        /\ Len(Sent(resp[c])) = 1
        /\ Sent(resp[c])[1].data = 2
        /\ settings["log_level"] = 2

\* an exception is raised while the request the session holds is being
\* dispatched: a call of the handler raises, or a send on the dead socket
RaisedInDispatch(c) ==
    \/ /\ Dispatch(c)
       /\ LET r == _handle_event(c, cur[c], listeners) IN
          \/ RaisesOf(r) = "before"
          \/ /\ r.sends # <<>>
             /\ \/ RaisesOf(r) = "after"
                \/ _send_response(c, r.sends[1]).outcome = "raised"
    \/ /\ pc[c] = "getdata"
       /\ pc'[c] # "getdata" \/ idx'[c] # idx[c]
       /\ GetDataModule(cur[c], idx[c], store) # <<>>
       /\ active[c] /\ ~alive[c]

\* the error the except clause of _handler builds
SafetyNetReply(c) ==
    ErrorResponse(cur[c].id, "unknown_event", ExceptionText)

\* the turn's last call of _send_response
LastCall(c) == resp'[c][Len(resp'[c])]

EnvelopeFailure(c) ==
    /\ pc[c] = "handle"
    /\ cur[c].kind \in {"bad_json", "bad_request"}
    /\ pc'[c] # "handle"

\* the error _handler builds for an envelope-level failure: it has no id
EnvelopeError(c) ==
    IF cur[c].kind = "bad_json"
    THEN ErrorResponse(NoId, "bad_json", "Invalid JSON")
    ELSE ErrorResponse(NoId, "bad_request", "Invalid request")

\* the session has left its receive loop for good
Left(c) == pc[c] \in {"leaving", "closed"}

RequestLevelError(c) ==
    \/ RaisedInDispatch(c)
    \/ /\ Dispatch(c)
       /\ LET r == _handle_event(c, cur[c], listeners) IN
          /\ r.sends # <<>>
          /\ r.sends[1].type = TYPE_ERROR

\* the loop of _handler moves on from a finished turn
LoopStep(c) == pc[c] = "done" /\ pc'[c] # "done"

\* C17 as stated: after a request-level error the session returns to
\* AwaitingMessage, with every listener registration still in place, and
\* goes on to receive its next message.
C17_error_turn_recovers ==
    [][\A c \in Conns :
         /\ RequestLevelError(c) =>
               /\ pc'[c] = "done"
               /\ listeners' = listeners
         /\ LoopStep(c) => pc'[c] = "recv"]_vars

\* C17, amended: after a request-level error the session returns to
\* AwaitingMessage with every listener registration still in place, and
\* its next message is received and handled by the same Handle step as any
\* other, unless the socket is dead when the error is sent (both that send
\* and the except clause's raise, and _handler is left) or the session was
\* deactivated (the loop `while self._active` ends).  An unknown event is
\* answered with unknown_event echoing the event name.
C17_request_errors_recoverable ==
    [][\A c \in Conns :
         /\ RequestLevelError(c) =>
               /\ pc'[c] = IF active[c] /\ ~alive[c] THEN "leaving" ELSE "done"
               /\ pc'[c] = "done" => listeners' = listeners
               /\ active'[c] = active[c]
         /\ LoopStep(c) => pc'[c] = IF active[c] THEN "recv" ELSE "leaving"
         /\ Dispatch(c) /\ cur[c].event = UnknownEventName =>
               /\ resp'[c] # <<>>
               /\ resp'[c][1].msg.subtype = "unknown_event"
               /\ resp'[c][1].msg.event = UnknownEventName
               /\ resp'[c][1].msg.id = cur[c].id]_vars

\* a session holding a registration was answered unknown_event, echoing
\* the event name, for its second request and is about to loop for its
\* third message
C17_witness ==
    \E c \in Conns :
        /\ pc[c] = "done"
        /\ cur[c].event = UnknownEventName
        /\ active[c] /\ alive[c]
        /\ IsRegistered(listeners, c)
        /\ nmsgs = 2
        /\ Sent(resp[c]) =
              << Response(2, TYPE_ERROR, "unknown_event", "Unknown event",
                          "", <<>>, 0, UnknownEventName) >>

\* the session rejects, in this step, a message whose envelope carried an
\* id: the envelope fails validation, the api-key is wrong, or the dispatch
\* ends in a request-level error
Rejected(c) ==
    /\ cur[c].id # NoId
    /\ \/ /\ pc[c] = "handle" /\ pc'[c] # "handle"
          /\ \/ cur[c].kind = "bad_request"
             \/ cur[c].kind = "request" /\ ~Authenticated(c, cur[c])
       \/ RequestLevelError(c)

\* C18: every rejected request whose envelope carried an id receives an
\* error Response carrying that same id, whatever the kind of rejection
\* (envelope bad_request, bad_api_key, per-event validation error, unknown
\* event, dispatch exception).
C18_rejection_echoes_id ==
    [][\A c \in Conns :
         Rejected(c) =>
            \E i \in 1..Len(Sent(resp'[c])) :
                /\ Sent(resp'[c])[i].type = TYPE_ERROR
                /\ Sent(resp'[c])[i].id = cur[c].id]_vars

\* invocation r of a trigger returns in this step
Returns(r) == runs[r].status # "returned" /\ runs'[r].status = "returned"

\* C19: a trigger returns successfully only after every category of its
\* set has been refreshed and notified: battery, disk and system for
\* update_data; sensors, cpu, display, gpu, memory, network and processes
\* for update_frequent_data.
C19_returns_after_all_notified ==
    [][\A r \in RunIds :
         Returns(r) =>
            /\ runs[r].trigger \in Triggers
            /\ runs[r].trigger = "update_data" =>
                  \A n \in {"battery", "disk", "system"} :
                      runs[r].phase[n] = "notified"
            /\ runs[r].trigger = "update_frequent_data" =>
                  \A n \in {"sensors", "cpu", "display", "gpu", "memory",
                            "network", "processes"} :
                      runs[r].phase[n] = "notified"]_vars

\* an invocation of each trigger has returned
C19_witness ==
    \E r, q \in RunIds :
        /\ runs[r].trigger = "update_data"
        /\ runs[r].status = "returned"
        /\ runs[q].trigger = "update_frequent_data"
        /\ runs[q].status = "returned"

\* the six categories update_frequent_data gathers after the sensors
Six == {"cpu", "display", "gpu", "memory", "network", "processes"}

\* the refresh of category n starts in this step of invocation r
RefreshStarts(r, n) ==
    /\ runs[r].phase[n] = "pending"
    /\ runs'[r].phase[n] \in {"refreshed", "failed"}

\* the _update task of category n is created in this step of invocation r
TaskCreated(r, n) ==
    /\ runs[r].phase[n] = "none"
    /\ runs'[r].phase[n] = "pending"

\* C20: in update_frequent_data the sensors refresh completes and the
\* sensors notification fires before the refresh of any of cpu, display,
\* gpu, memory, network and processes starts; the tasks of those six are
\* created together, by the step that returns from the sensors
\* notification.
C20_sensors_before_the_six ==
    [][\A r \in RunIds :
         runs[r].trigger = "update_frequent_data" =>
            \A n \in Six :
               /\ RefreshStarts(r, n) => runs[r].phase["sensors"] = "notified"
               /\ TaskCreated(r, n) =>
                     /\ runs[r].phase["sensors"] = "refreshed"
                     /\ runs'[r].phase["sensors"] = "notified"
                     /\ \A k \in Six : TaskCreated(r, k)]_vars

\* the six complete and notify in an order that is not the order of the
\* list: processes (the last) has notified, gpu has refreshed and cpu (the
\* first) has not started, after the sensors were notified
C20_witness ==
    \E r \in RunIds :
        /\ runs[r].trigger = "update_frequent_data"
        /\ runs[r].status = "gather"
        /\ runs[r].phase["sensors"] = "notified"
        /\ runs[r].phase["processes"] = "notified"
        /\ runs[r].phase["gpu"] = "refreshed"
        /\ runs[r].phase["cpu"] = "pending"

\* the notification of category n is fired in this step of invocation r
Notifies(r, n) ==
    /\ runs[r].phase[n] # "notified"
    /\ runs'[r].phase[n] = "notified"

\* C21: within one trigger run the notification of a category is fired
\* exactly once, and only after the category's collector has completed its
\* clear-and-repopulate in that run: never before or during the refresh,
\* never a second time, never for a category whose collector raised.
C21_notified_once_after_refresh ==
    [][\A r \in RunIds : \A n \in Collected :
         /\ Notifies(r, n) =>
               /\ runs[r].phase[n] = "refreshed"
               /\ n \in TriggerSet(runs[r].trigger)
               /\ \A k \in Collected \ {n} :
                     runs'[r].phase[k] = "notified"
                        => runs[r].phase[k] = "notified"
         /\ runs[r].phase[n] = "notified"
               => runs'[r].phase[n] \in {"notified", "none"}
         /\ runs[r].phase[n] = "failed"
               => runs'[r].phase[n] \in {"failed", "none"}
         /\ runs[r].phase[n] \in {"pending", "cleared"}
               => runs'[r].phase[n] # "notified"]_vars

\* a run in which disk was notified after its refresh, system refreshed
\* and not yet notified, and battery's collector raised
C21_witness ==
    \E r \in RunIds :
        /\ runs[r].trigger = "update_data"
        /\ runs[r].phase["disk"] = "notified"
        /\ runs[r].phase["system"] = "refreshed"
        /\ runs[r].phase["battery"] = "failed"

\* a collector of invocation r has raised: the exception is on its way
\* to the trigger, or the trigger has ended with it
Failed(r) == runs[r].status \in {"failing", "raised"}

\* C22 as stated: once a collector of a trigger has raised, the trigger
\* ends with that failure and the siblings that have not finished are
\* aborted: no completion notification is fired after the failure,
\* nothing is retried; if the sensors collector raises, none of the six
\* categories gathered after it is refreshed or notified in that run.
C22_no_notification_after_failure ==
    [][\A r \in RunIds :
         /\ Failed(r) => \A n \in Collected : ~Notifies(r, n)
         /\ Failed(r) => runs'[r].status \in {"failing", "raised"}
         /\ runs[r].status = "sensors" /\ runs'[r].status = "raised" =>
               \A n \in Six : runs[r].phase[n] = "none"]_vars

\* C22, amended: an exception of a collector is not caught by the
\* scheduler, the trigger ends with it and never returns successfully,
\* and nothing is retried.  The siblings still unfinished when the trigger
\* ends are cancelled and do nothing after that; between the failure and
\* the end of the trigger they may still complete a refresh and fire
\* their notification.  If the sensors collector raises in the frequent
\* trigger, the trigger ends at once and none of cpu, display, gpu,
\* memory, network, processes is refreshed or notified in that run.
C22_fail_fast ==
    [][\A r \in RunIds :
         /\ Failed(r) => runs'[r].status \in {"failing", "raised"}
         /\ runs[r].status = "raised" => runs'[r] = runs[r]
         /\ \A n \in Collected :
               /\ runs[r].phase[n] = "failed"
                     => runs'[r].phase[n] \in {"failed", "none"}
               /\ runs[r].phase[n] # "failed" /\ runs'[r].phase[n] = "failed"
                     => /\ runs[r].status = "gather"
                        /\ runs'[r].status = "failing"
         /\ runs[r].status = "sensors" /\ runs'[r].status = "raised" =>
               \A n \in Six : /\ runs[r].phase[n] = "none"
                              /\ runs'[r].phase[n] = "none"
         /\ runs[r].status = "sensors" =>
               \A n \in Six : runs[r].phase[n] = "none"]_vars

\* one trigger has ended with the exception of a collector, and in a
\* later one cpu's collector has raised while gpu has not started
C22_witness ==
    \E r, q \in RunIds :
        /\ runs[q].status = "raised"
        /\ runs[r].status = "failing"
        /\ runs[r].phase["cpu"] = "failed"
        /\ runs[r].phase["gpu"] = "pending"

\* C23: when two invocations of the same trigger have both finished,
\* overlapping or not, the sensors table holds exactly the rows upserted by
\* one complete sampling, the latest: no row written before the other
\* invocation's clear and no key absent from the latest sampling survives.
C23_overlap_idempotent ==
    \A r, q \in RunIds :
        (/\ r # q
         /\ runs[r].trigger = "update_frequent_data"
         /\ runs[q].trigger = "update_frequent_data"
         /\ runs[r].status = "returned"
         /\ runs[q].status = "returned"
         /\ \A p \in RunIds : ~InFlight(p))
           => get_data_dict(table) = RowsOf(last.run, last.sample)

\* the three triggers: the two of Update and the platform-events thread
AllTriggers == Triggers \cup {"run_platform_events"}

\* the categories each trigger refreshes
SetOf(t) == IF t = "run_platform_events" THEN EventsSet ELSE TriggerSet(t)

\* an invocation of trigger t is writing the table of category n: its
\* collector has been started, or is about to be, and has not returned
Writing(t, n) ==
    IF t = "run_platform_events"
    THEN events.status = "running" /\ n \in EventsSet
    ELSE \E r \in RunIds :
            /\ runs[r].trigger = t
            /\ InFlight(r)
            /\ n \in Collected
            /\ runs[r].phase[n] \in {"pending", "cleared"}

\* C24: the category sets of the three triggers are pairwise disjoint
\* (full: battery, disk, system; frequent: sensors, cpu, display, gpu,
\* memory, network, processes; platform events: media), each member is a
\* category of MODULES and together they cover MODULES; hence, with the
\* three triggers in flight at once, no category table is being written
\* by two different triggers.
C24_trigger_sets_partition_modules ==
    /\ SetOf("update_data") = {"battery", "disk", "system"}
    /\ SetOf("update_frequent_data") =
          {"sensors", "cpu", "display", "gpu", "memory", "network",
           "processes"}
    /\ SetOf("run_platform_events") = {"media"}
    /\ \A t, u \in AllTriggers : t # u => SetOf(t) \cap SetOf(u) = {}
    /\ \A t \in AllTriggers : SetOf(t) \subseteq Range(MODULES)
    /\ UNION {SetOf(t) : t \in AllTriggers} = Range(MODULES)
    /\ \A n \in Range(MODULES) :
          Cardinality({t \in AllTriggers : Writing(t, n)}) <= 1

\* the three triggers are in flight at once, each writing a table of its
\* own: disk, the sensors, media
C24_witness ==
    /\ Writing("update_data", "disk")
    /\ \E r \in RunIds : /\ runs[r].trigger = "update_frequent_data"
                         /\ runs[r].phase["sensors"] = "cleared"
    /\ Writing("run_platform_events", "media")
    /\ events.phase = "refreshed"

\* C25: on a host whose platform is not Windows the platform-events
\* trigger is a no-op: no Media collector is created, nothing is written
\* and no notification is fired, and the call returns; on Windows it
\* refreshes media only, each refresh followed by its notification, and
\* never returns.  Whatever the host, a step of the trigger leaves the
\* tables and tasks of the other triggers as they are.
C25_platform_events_gated ==
    [][/\ events'.platform \notin {"", "Windows"} =>
             /\ ~events'.collector
             /\ events'.writes = 0
             /\ events'.notified = 0
             /\ events'.phase = "idle"
             /\ events'.status \in {"constructed", "returned"}
       /\ events'.platform = "Windows" =>
             /\ events'.collector
             /\ events'.status \in {"constructed", "running"}
             /\ events'.notified =
                   events'.writes - (IF events'.phase = "refreshed"
                                     THEN 1 ELSE 0)
       /\ events' # events =>
             /\ UNCHANGED << runs, table, readout, last, store, notifies >>
             /\ events.platform # "" => events'.platform = events.platform
             /\ events'.writes # events.writes =>
                   /\ events.status = "running"
                   /\ events'.writes = events.writes + 1]_vars

\* on a Linux host the trigger has returned without a collector, a write
\* or a notification, while a frequent refresh is notifying its categories
C25_witness ==
    /\ events.platform = "Linux"
    /\ events.status = "returned"
    /\ ~events.collector
    /\ events.writes = 0 /\ events.notified = 0
    /\ \E r \in RunIds : /\ runs[r].trigger = "update_frequent_data"
                         /\ runs[r].phase["cpu"] = "notified"

\* the step routes the notification n to a registration: d is what the
\* callback invoked for it did
Routed(n, d) ==
    /\ n \in notifies
    /\ \E n2 \in notifies' :
          /\ n2.module = n.module
          /\ n2.data = n.data
          /\ d \in n2.delivered \ n.delivered

\* the push _data_changed builds for category `module` and snapshot `data`
DataUpdate(module, data) ==
    Response(NoId, TYPE_DATA_UPDATE, "", "Data changed", module, <<>>, data, "")

\* the state of the sessions
SessionState == << active, alive, pc, cur, idx, resp, disp, exits, exitPath,
                   ops, listeners >>

\* C26 as stated: when the registry routes (category, data) to a session,
\* the session emits exactly one data-update Response with that category
\* and snapshot if the name is a category of MODULES; for another name it
\* sends nothing and its state is unchanged.
C26_routed_change_pushed ==
    [][\A n \in notifies : \A d \in NewDeliveries :
         Routed(n, d) =>
            /\ n.module \in Range(MODULES) =>
                  Sent(d.log) = << DataUpdate(n.module, n.data) >>
            /\ n.module \notin Range(MODULES) =>
                  /\ Sent(d.log) = <<>>
                  /\ UNCHANGED SessionState]_vars

\* C26, amended: when the registry routes (category, data) to a session,
\* the session hands exactly one data-update Response with that category
\* and snapshot to _send_response if the name is a category of MODULES,
\* and the client receives it if the session is active and its socket
\* open; for another name _send_response is not called at all.  In both
\* cases the state of the session is unchanged.
C26_routed_change_filtered ==
    [][/\ NewDeliveries # {} =>
             \E n \in notifies : \E d \in NewDeliveries : Routed(n, d)
       /\ \A n \in notifies : \A d \in NewDeliveries :
            Routed(n, d) =>
               LET c == d.reg.callback IN
               /\ n.module \in Range(MODULES) =>
                     /\ d.log = << _send_response(
                                     c, DataUpdate(n.module, n.data)) >>
                     /\ Sent(d.log) =
                           IF active[c] /\ alive[c]
                           THEN << DataUpdate(n.module, n.data) >> ELSE <<>>
               /\ n.module \notin Range(MODULES) => d.log = <<>>
               /\ UNCHANGED SessionState]_vars

\* the notification of a name that is no category was routed to the
\* session registered for cpu and that name, open and active, which made
\* no call of _send_response for it
C26_witness ==
    \E n \in notifies : \E d \in n.delivered :
        /\ n.module = OtherName
        /\ d.reg.modules = <<"cpu", OtherName>>
        /\ active[d.reg.callback] /\ alive[d.reg.callback]
        /\ d.log = <<>>

\* the step dispatches an authenticated power event
PowerStep(c) == Dispatch(c) /\ cur[c].event \in DOMAIN PowerEvents

\* the in-progress Response of the power event the session holds
InProgress(c) ==
    Reply(cur[c].id, PowerEvents[cur[c].event].type,
          PowerEvents[cur[c].event].message)

\* C27 as stated: for each power event the matching in-progress Response
\* echoing the request id is sent before the power action is invoked, the
\* action is invoked exactly once per request, and not at all if sending
\* the Response fails.
C27_response_sent_before_power_action ==
    [][\A c \in Conns :
         PowerStep(c) =>
            /\ effects'[c] \in {<<>>, << PowerEvents[cur[c].event].call >>}
            /\ effects'[c] # <<>> =>
                  /\ Sent(resp'[c]) # <<>>
                  /\ Sent(resp'[c])[1] = InProgress(c)
            /\ effects'[c] = <<>> => resp'[c][1].outcome = "raised"]_vars

\* C27, amended: for each power event the handler first awaits
\* _send_response with the matching in-progress Response echoing the
\* request id and only then invokes the power action, exactly once; if the
\* send raises (dead socket) the action is not invoked.  After
\* set_active(false) the Response is not written, and the action is
\* invoked all the same.
C27_power_action_after_send ==
    [][\A c \in Conns :
         PowerStep(c) =>
            LET r == _handle_event(c, cur[c], listeners)
                call == PowerEvents[cur[c].event].call
            IN
            /\ r.sends = << InProgress(c) >>
            /\ BeforeOf(r) = <<>> /\ AfterOf(r) = << call >>
            /\ resp'[c] # <<>>
            /\ resp'[c][1] = _send_response(c, InProgress(c))
            /\ effects'[c] =
                  IF resp'[c][1].outcome = "raised" THEN <<>> ELSE << call >>
            /\ Sent(resp'[c]) # <<>> => Sent(resp'[c])[1] = InProgress(c)]_vars

\* a shutdown request was answered "Shutting down" and then shutdown()
\* was called, once
C27_witness ==
    \E c \in Conns :
        /\ pc[c] = "done"
        /\ cur[c].event = "power-shutdown"
        /\ ~cur[c].args.raises
        /\ Sent(resp[c]) =
              << Reply(cur[c].id, "power-shuttingdown", "Shutting down") >>
        /\ effects[c] = << "shutdown" >>

\* a message is written to connection c by a send that starts in this
\* step: a response of its dispatch loop or a push routed by the registry
Written(c) ==
    \/ /\ pc[c] = "handle" /\ pc'[c] # "handle"
       /\ Sent(resp'[c]) # <<>>
    \/ /\ pc[c] = "getdata"
       /\ Len(Sent(resp'[c])) > Len(Sent(resp[c]))
    \/ \E d \in NewDeliveries :
          /\ d.reg.callback = c
          /\ Sent(d.log) # <<>>

\* the step is a call of set_active on session c
SetActiveStep(c) == active'[c] # active[c]

\* C28: once set_active(false) was called on a session, and for as long as
\* the session stays inactive, no send that starts is written to its
\* connection, response or data-update push; the call itself changes
\* nothing else: it does not close the connection, end the loop or remove
\* the listener registration.
C28_inactive_session_writes_nothing ==
    [][\A c \in Conns :
         /\ ~active[c] => ~Written(c)
         /\ SetActiveStep(c) =>
               /\ UNCHANGED << alive, pc, cur, listeners, notifies, resp,
                               exitPath, ops >>
               /\ \A d \in Conns \ {c} : active'[d] = active[d]]_vars

\* a registered session silenced while it awaited a message has handled
\* its next request: the reply was handed to _send_response and not
\* written, the socket is open and the registration in place
C28_witness ==
    \E c \in Conns :
        /\ ~active[c] /\ alive[c]
        /\ pc[c] = "done"
        /\ IsRegistered(listeners, c)
        /\ resp[c] # <<>>
        /\ \A i \in DOMAIN resp[c] : resp[c][i].outcome = "silenced"

\* C29: outbound sends on one connection are serialized: in no reachable
\* state are two sends in progress on the same connection, in particular
\* not a data-update push made by a trigger's completion callback in the
\* scheduler's thread together with a response of the connection's own
\* dispatch loop.
C29_sends_serialized ==
    \A c \in Conns : Cardinality(sending[c]) <= 1

\* the step dispatches a valid media-control request: an action of the
\* enumerated set, with a value for seek, shuffle and repeat
ValidMediaControl(c) ==
    /\ Dispatch(c)
    /\ cur[c].event = TYPE_MEDIA_CONTROL
    /\ cur[c].args.ok
    /\ cur[c].args.a \in DOMAIN MediaAction
    /\ cur[c].args.a \in ValueActions => cur[c].args.v # 0

\* C30: a valid media-control request invokes exactly the one
\* transport-control action matching its action and then yields a success
\* Response echoing the request id (here: on a session that is active, its
\* socket open, and whose media call does not raise).
C30_media_control_acknowledged ==
    [][\A c \in Conns :
         (/\ ValidMediaControl(c)
          /\ active[c] /\ alive[c]
          /\ ~cur[c].args.raises)
           => /\ effects'[c] = << MediaAction[cur[c].args.a] >>
              /\ Len(Sent(resp'[c])) = 1
              /\ Sent(resp'[c])[1].id = cur[c].id
              /\ Sent(resp'[c])[1].type # TYPE_ERROR]_vars

\* the registrations a call of notify has served so far
Served(n) == {d.reg : d \in n.delivered}

\* the call of notify n goes on in this step as n2: same notification,
\* one more callback invoked
GoesOn(n, n2) ==
    /\ n \in notifies /\ n2 \in notifies'
    /\ n2.module = n.module /\ n2.data = n.data
    /\ n2.delivered # n.delivered

\* C31: delivery isolation in notify.  Whatever the callbacks invoked so
\* far did (one of them raising on a dead socket included) and whatever
\* registrations were removed since the call started, the next callback
\* is invoked on a registration of the snapshot not served yet, the
\* snapshot loses no registration, the connection served receives its
\* data-update if its own session is active and its socket open, and the
\* call returns only when its snapshot is exhausted.
C31_delivery_isolated ==
    [][/\ \A n \in notifies : \A n2 \in notifies' :
            GoesOn(n, n2) =>
               /\ n2.pending \cup Served(n2) = n.pending \cup Served(n)
               /\ n.delivered \subseteq n2.delivered
               /\ \A d \in n2.delivered \ n.delivered :
                     /\ d.reg \in n.pending
                     /\ n2.pending = n.pending \ {d.reg}
                     /\ d.log = _data_changed(d.reg.callback, n.module, n.data)
                     /\ active[d.reg.callback] /\ alive[d.reg.callback] =>
                           Sent(d.log) = << DataUpdate(n.module, n.data) >>
       /\ \A n \in notifies :
            (\A n2 \in notifies' : n2.module # n.module \/ n2.data # n.data)
               => n.pending = {}]_vars

\* in one call of notify the callback of a connection whose socket is dead
\* raised and the other subscribed connection received its data-update,
\* while a registration of the snapshot is no longer in the registry
C31_witness ==
    \E n \in notifies : \E d1, d2 \in n.delivered :
        /\ d1.log # <<>> /\ d1.log[1].outcome = "raised"
        /\ d2.reg # d1.reg
        /\ Sent(d2.log) = << DataUpdate(n.module, n.data) >>
        /\ d1.reg \notin listeners

\* session c takes a new message from its socket in this step
Takes(c) == cur'[c] # cur[c] /\ cur'[c] # NoMsg

\* session c is inside the dispatch of a message: received, and the loop
\* body not yet over
Dispatching(c) == pc[c] \in {"handle", "getdata"}

\* C32: per connection, dispatches never overlap.  A session takes its next
\* message only while it awaits the receive, with no message in hand and
\* nothing of the previous dispatch outstanding, and every response and
\* side effect of a dispatch is made while the session still holds the
\* message it belongs to.
C32_dispatches_never_overlap ==
    [][\A c \in Conns :
         /\ Takes(c) =>
              /\ pc[c] = "recv" /\ pc'[c] = "handle"
              /\ cur[c] = NoMsg
              /\ idx[c] = 0 /\ resp[c] = <<>> /\ effects[c] = <<>>
              /\ ~disp[c]
         /\ (resp'[c] # resp[c] /\ resp'[c] # <<>>) \/
            (effects'[c] # effects[c] /\ effects'[c] # <<>>) \/
            (listeners' # listeners /\ Dispatching(c) /\ pc'[c] # pc[c]) =>
              /\ Dispatching(c)
              /\ cur[c] # NoMsg /\ cur'[c] = cur[c]]_vars

\* the two connections are inside a dispatch at the same time, each having
\* sent a response of its get-data and with more to send
C32_witness ==
    /\ pc["A"] = "getdata" /\ pc["B"] = "getdata"
    /\ cur["A"].id # cur["B"].id
    /\ Sent(resp["A"]) # <<>> /\ Sent(resp["B"]) # <<>>

\* run r is the next free slot for an invocation
NextSlot(r) ==
    runs[r].status = "idle" /\ \A q \in RunIds : q < r => runs[q].status # "idle"

\* C33: triggers are not serialized against each other or against client
\* traffic.  Whatever is in flight (the other trigger, the platform-events
\* thread that never returns, a session in the middle of a dispatch), a
\* trigger can be started, every invocation in flight can take its next
\* step until it has returned, and the session can take its next step:
\* receive, dispatch, answer.
C33_triggers_not_serialized ==
    /\ \A r \in RunIds, t \in Triggers :
          NextSlot(r) /\ NoneInFlight(t) => ENABLED request_update(r, t)
    /\ \A r \in RunIds : InFlight(r) => ENABLED RunStep(r)
    /\ \A c \in Conns :
          /\ pc[c] = "recv" /\ nmsgs < MaxMsgs =>
                ENABLED (\E m \in TrafficInbound : Receive(c, m))
          /\ pc[c] = "handle" => ENABLED Handle(c, "connection_error")
          /\ pc[c] = "getdata" => ENABLED GetDataStep(c, "connection_error")
          /\ pc[c] = "done" => ENABLED Loop(c)

\* with the platform-events thread running and a full refresh requested
\* first and still at its start, a frequent refresh requested later has
\* run to completion and the session has answered a get-data
C33_witness ==
    /\ events.status = "running"
    /\ runs[1].trigger = "update_data" /\ runs[1].status = "gather"
    /\ \A n \in TriggerSet("update_data") : runs[1].phase[n] = "pending"
    /\ runs[2].trigger = "update_frequent_data" /\ runs[2].status = "returned"
    /\ \E c \in Conns : pc[c] = "done" /\ Sent(resp[c]) # <<>>

Ended(r) == runs[r].status \in {"returned", "raised"}

\* C34: every invocation of the full or frequent trigger terminates when
\* its refreshes and callbacks do.  An invocation in flight ends, and it
\* leaves flight in one of two ways only: returning, with every category
\* of its trigger refreshed and notified, or raising, after a collector
\* raised; nothing else takes it out of flight or puts it back.
C34_invocation_terminates ==
    /\ \A r \in RunIds : InFlight(r) ~> Ended(r)
    /\ [][\A r \in RunIds :
            /\ InFlight(r) /\ ~InFlight(r)' =>
                 \/ /\ runs'[r].status = "returned"
                    /\ \A n \in TriggerSet(runs[r].trigger) :
                          runs[r].phase[n] = "notified"
                 \/ /\ runs'[r].status = "raised"
                    /\ \/ runs[r].status = "failing"
                       \/ runs[r].status = "sensors"
            /\ Ended(r) => runs'[r] = runs[r]]_vars

\* one invocation has ended by raising and a frequent refresh has returned
C34_witness ==
    \E r, q \in RunIds :
        /\ runs[r].status = "raised" /\ runs[r].trigger = "update_data"
        /\ runs[q].status = "returned"
        /\ runs[q].trigger = "update_frequent_data"

\* every call of _send_response of the turn returned without sending
Silenced(log) == \A i \in DOMAIN log : log[i].outcome = "silenced"

\* C35: after set_active(false) was called while the session waits for a
\* message, and while the session stays inactive: the session does not
\* come back to its receive, so at most one further message is taken; that
\* message is authenticated and dispatched with its side effects and
\* nothing is sent; the loop test that follows leaves _handler; handler()
\* then removes the registration; and the session, once it holds that
\* message, does reach the closed state.
C35_one_more_message_after_deactivation ==
    /\ [][\A c \in Conns :
            /\ ~active[c] /\ ~active'[c] /\ pc'[c] = "recv" => pc[c] = "recv"
            /\ Dispatch(c) /\ ~active[c] =>
                  /\ Sent(resp'[c]) = <<>>
                  /\ disp'[c]
                  /\ cur[c].event \in DOMAIN PowerEvents =>
                        effects'[c] = << PowerEvents[cur[c].event].call >>
                  /\ cur[c].event = TYPE_REGISTER_DATA_LISTENER =>
                        IsRegistered(listeners', c)
                  /\ pc'[c] \in {"getdata", "done"}
            /\ pc[c] = "done" /\ pc'[c] # "done" /\ ~active[c] =>
                  pc'[c] = "leaving" /\ exitPath'[c] = "inactive"
            /\ pc[c] = "leaving" /\ pc'[c] # "leaving" =>
                  pc'[c] = "closed" /\ ~IsRegistered(listeners', c)]_vars
    /\ (pc["A"] = "handle" /\ ~active["A"]) ~>
          \/ pc["A"] = "closed" /\ ~IsRegistered(listeners, "A")
          \/ active["A"]

\* the session, registered and deactivated while it waited, has
\* dispatched one more message: the power action was invoked and the
\* in-progress Response was not sent
C35_witness ==
    \E c \in Conns :
        /\ pc[c] = "done" /\ ~active[c] /\ alive[c]
        /\ cur[c].event = "power-sleep"
        /\ effects[c] = << "sleep" >>
        /\ resp[c] # <<>> /\ Silenced(resp[c])
        /\ IsRegistered(listeners, c)

\* the complete row set of the most recent refresh of the sensors that has
\* finished its upserts, or the initial empty table
LastGeneration ==
    IF last.run = 0 THEN {} ELSE RowsOf(last.run, last.sample)

\* C36: what a get-data reads from the table of the sensors is always the
\* complete row set of a single refresh generation, or the initial empty
\* table, also when it is served while a scheduler thread is between
\* clearing the table and finishing its upserts: it is never an emptied or
\* partially repopulated table.
C36_snapshot_is_one_generation ==
    [][readout' # readout => readout'.data = LastGeneration]_vars

\* a send made inside the dispatch of the request session c holds raises
\* in this step
SendRaisedInDispatch(c) ==
    /\ \/ Dispatch(c)
       \/ pc[c] = "getdata" /\ (pc'[c] # "getdata" \/ idx'[c] # idx[c])
    /\ Len(resp'[c]) >= 2
    /\ resp'[c][Len(resp'[c]) - 1].outcome = "raised"

\* session c has had a send of its dispatch raise and is on its way out
Dropped(c) ==
    /\ pc[c] \in {"done", "leaving"}
    /\ \E i \in DOMAIN resp[c] : resp[c][i].outcome = "raised"

\* C37: when a send inside a dispatch raises because the connection
\* dropped, the except clause of _handler takes the error and calls
\* _send_response with the unknown_event error of the request; if that
\* send raises _handler is left, if it does not the loop goes on; in both
\* cases the session reaches the closed state with its registration
\* removed, and it takes no message any more.
C37_drop_in_dispatch_closes ==
    /\ [][\A c \in Conns :
            /\ SendRaisedInDispatch(c) =>
                  /\ LastCall(c).msg = SafetyNetReply(c)
                  /\ LastCall(c).outcome \in {"raised", "silenced"}
                  /\ pc'[c] = IF LastCall(c).outcome = "raised"
                              THEN "leaving" ELSE "done"
                  /\ ~alive'[c]
            /\ ~alive[c] => ~alive'[c] /\ ~Takes(c)
            /\ pc[c] = "closed" => pc'[c] = "closed"]_vars
    /\ Dropped("A") ~>
          (pc["A"] = "closed" /\ ~IsRegistered(listeners, "A"))

\* the registered session's send of a power event's Response raised on
\* the dead socket and the send of the except clause did not raise
C37_witness ==
    \E c \in Conns :
        /\ pc[c] = "done"
        /\ IsRegistered(listeners, c)
        /\ cur[c].event = "power-sleep"
        /\ Len(resp[c]) = 2
        /\ resp[c][1].outcome = "raised"
        /\ resp[c][2].outcome = "silenced"
        /\ resp[c][2].msg =
              ErrorResponse(cur[c].id, "unknown_event", ExceptionText)

\* the Responses written to connection c since it received the message it
\* holds
Emitted(c) == Sent(resp[c])

\* C38: for any single request id, the session never emits an error
\* Response after it has emitted a non-error Response for that request,
\* also when a step that follows the success Response raises (the autostart
\* toggle after setting-updated, the power action after the in-progress
\* Response).
C38_no_error_after_success ==
    \A c \in Conns : \A i, j \in DOMAIN Emitted(c) :
        i < j /\ Emitted(c)[i].id = Emitted(c)[j].id
              /\ Emitted(c)[i].type # TYPE_ERROR
           => Emitted(c)[j].type # TYPE_ERROR

====
